---------------------------- MODULE Spec2Model ----------------------------
(***************************************************************************)
(* A model of three pieces of SU2:                                         *)
(*   - CQuadrilateral (Common/src/geometry/primal_grid/CQuadrilateral.cpp) *)
(*   - the residual/Jacobian assembly of CIncNSSolver (Viscous_Residual    *)
(*     and the three wall boundary procedures)                             *)
(*   - the time-step controller CIncNSSolver::SetTime_Step, run by the     *)
(*     processes of a partitioned mesh with its MPI reductions.            *)
(* Floating-point values are modelled as exact rationals <<num, den>>.     *)
(***************************************************************************)
EXTENDS Integers, Sequences, FiniteSets, TLC

VARIABLES
  \* ---- CQuadrilateral ----
  Nodes,               \* Nodes[0..3]: the element's node indices
  Coord_FaceElems_CG,  \* face-centroid storage allocated by the constructor
  elemDim,             \* the element's nDim field
  Nodes0,              \* history: the constructor's arguments
  nFlips,              \* history: calls of Change_Orientation so far
  \* ---- assembly (one process) ----
  LinSysRes,           \* residual block per local point
  Jacobian,            \* scalar matrix, row and column index iPoint*nVar+iVar
  Solution_Old,        \* old solution per local point
  Res_TruncError,      \* multigrid truncation error per local point
  Res_Visc,            \* scratch residual of the solver
  Jacobian_i,          \* scratch Jacobian block of the solver
  HeatConjugateVar,    \* [marker][vertex][0..3] boundary-coupling records
  asmCfg,              \* run configuration of the assembly process
  fatal,               \* SU2_MPI::Error was raised
  hist,                \* history: what the last assembly call did
  \* ---- time-step controller (all processes) ----
  Max_Lambda_Inv,      \* [rank][point]
  Max_Lambda_Visc,     \* [rank][point]
  Delta_Time,          \* [rank][point]
  LocalCFL,            \* [rank][point]
  Min_Delta_Time,      \* [rank]
  Max_Delta_Time,      \* [rank]
  Global_Delta_Time,   \* [rank]  local of SetTime_Step
  Global_Delta_UnstTimeND, \* [rank] local of SetTime_Step
  Delta_UnstTimeND,    \* [rank]  each process's configuration value
  pc,                  \* [rank]  position in SetTime_Step
  tsCfg,               \* run-wide configuration and mesh data
  callArgs,            \* iMesh and Iteration of the current call
  nCalls,              \* calls of SetTime_Step started so far
  stepLog,             \* history: [rank][point] step of lines 785-787 before the clip
  collLog,             \* history: [rank] collective call sites reached so far
  \* ---- halo exchanges of the constructor (one process) ----
  ctorPc,              \* position in the constructor's exchange section
  iPeriodic,           \* the loop counter of lines 434-439
  ctorStep,            \* the next call of the loop body
  outstanding,         \* exchanges initiated and not yet completed
  commLog,             \* history: the Initiate/Complete calls made so far
  implicit_periodic,   \* set by SetImplicitPeriodic
  rotate_periodic,     \* set by SetRotatePeriodic
  ctorCfg,             \* configuration and arguments of the constructor
  \* ---- Preprocessing (all processes) ----
  prePc,               \* [rank] position in Preprocessing
  ErrorCounter,        \* [rank] local of Preprocessing
  StrainMag_Max,       \* [rank]
  Omega_Max,           \* [rank]
  Nonphysical_Points,  \* [rank] each process's configuration value
  RankLinSysRes,       \* [rank][point] residual blocks of each process
  RankJacobian,        \* [rank] Jacobian of each process
  preIn                \* the Output argument and each process's flow state

quadVars == <<Nodes, Coord_FaceElems_CG, elemDim, Nodes0, nFlips>>
asmVars  == <<LinSysRes, Jacobian, Solution_Old, Res_TruncError, Res_Visc,
              Jacobian_i, HeatConjugateVar, asmCfg, fatal, hist>>
timeState == <<Max_Lambda_Inv, Max_Lambda_Visc, Delta_Time, LocalCFL,
               Min_Delta_Time, Max_Delta_Time, Global_Delta_Time,
               Global_Delta_UnstTimeND, Delta_UnstTimeND, pc, tsCfg, callArgs,
               nCalls, stepLog>>
timeVars == <<timeState, collLog>>
ctorVars == <<ctorPc, iPeriodic, ctorStep, outstanding, commLog, implicit_periodic,
              rotate_periodic, ctorCfg>>
preVars  == <<prePc, ErrorCounter, StrainMag_Max, Omega_Max, Nonphysical_Points,
              RankLinSysRes, RankJacobian, preIn>>
vars == <<quadVars, asmVars, timeVars, ctorVars, preVars>>

(***************************************************************************)
(* Exact rational arithmetic standing for su2double.  A value is           *)
(* <<num, den>> in lowest terms with den > 0; <<1, 0>> is a value larger   *)
(* than every other one.                                                   *)
(***************************************************************************)
RECURSIVE GCD(_, _)
GCD(a, b) == IF b = 0 THEN a ELSE GCD(b, a % b)

Abs(x) == IF x < 0 THEN -x ELSE x

RNorm(n, d) ==
  IF d = 0 THEN <<1, 0>>
  ELSE LET g == GCD(Abs(n), Abs(d))
           s == IF d < 0 THEN -1 ELSE 1
       IN  <<s * (n \div g), s * (d \div g)>>

R(n) == <<n, 1>>
RZero == <<0, 1>>

RAdd(a, b) == IF a[2] = 0 \/ b[2] = 0 THEN <<1, 0>>
              ELSE RNorm(a[1] * b[2] + b[1] * a[2], a[2] * b[2])
RNeg(a) == <<-a[1], a[2]>>
RSub(a, b) == RAdd(a, RNeg(b))
RMul(a, b) == IF a[2] = 0 \/ b[2] = 0 THEN <<1, 0>>
              ELSE LET g1 == GCD(Abs(a[1]), b[2])
                       g2 == GCD(Abs(b[1]), a[2])
                   IN  RNorm((a[1] \div g1) * (b[1] \div g2),
                             (a[2] \div g2) * (b[2] \div g1))
RDiv(a, b) == IF b[1] < 0 THEN RMul(a, <<-b[2], -b[1]>>)
              ELSE RMul(a, <<b[2], b[1]>>)
\* a < b, comparing the integer parts first so that no product leaves the
\* range of 32-bit integers
RLt(a, b) ==
  IF a[2] = 0 THEN FALSE
  ELSE IF b[2] = 0 THEN TRUE
  ELSE LET fa == a[1] \div a[2]
           fb == b[1] \div b[2]
       IN  IF fa # fb THEN fa < fb
           ELSE (a[1] - fa * a[2]) * b[2] < (b[1] - fb * b[2]) * a[2]
RLe(a, b) == ~RLt(b, a)
RMin(a, b) == IF RLt(b, a) THEN b ELSE a
RMax(a, b) == IF RLt(a, b) THEN b ELSE a
RAbs(a) == <<Abs(a[1]), a[2]>>
ISqrt(n) == CHOOSE k \in 0..n : k * k = n
RSqrt(a) == <<ISqrt(a[1]), ISqrt(a[2])>>

(***************************************************************************)
(* CQuadrilateral                                                          *)
(***************************************************************************)
MaxNode == 4     \* node indices are drawn from 0..MaxNode
MaxFlips == 3    \* calls of Change_Orientation in one behaviour

nFaces == 4
QuadDims == {2, 3}

\* The mesh reader builds an element from four distinct point indices.
QuadArgs == {f \in [0..3 -> 0..MaxNode] :
               \A i, j \in 0..3 : i # j => f[i] # f[j]}

\* CQuadrilateral::CQuadrilateral(val_point_0 .. val_point_3, val_nDim)
CQuadrilateral(pts, val_nDim) ==
  /\ Nodes = pts
  /\ elemDim = val_nDim
  /\ Coord_FaceElems_CG = [iFace \in 0..(nFaces - 1) |->
                             [iDim \in 0..(val_nDim - 1) |-> 0]]

\* Mutants of SwapNodes: an assignment instead of a swap; a rotation of the slots.
SwapNodes_Assign(N) == [N EXCEPT ![1] = N[3]]
SwapNodes_Rotate(N) == [i \in 0..3 |-> N[(i + 1) % 4]]

\* std::swap(Nodes[1], Nodes[3])
SwapNodes(N) == [N EXCEPT ![1] = N[3], ![3] = N[1]]

Change_Orientation ==
  /\ nFlips < MaxFlips
  /\ Nodes' = SwapNodes(Nodes)
  /\ nFlips' = nFlips + 1
  /\ UNCHANGED <<Coord_FaceElems_CG, elemDim, Nodes0>>

QuadIdle ==
  /\ Nodes = [i \in 0..3 |-> i]
  /\ elemDim = 2
  /\ Coord_FaceElems_CG = <<>>
  /\ Nodes0 = [i \in 0..3 |-> i]
  /\ nFlips = 0

(***************************************************************************)
(* The local mesh of one process (CGeometry): three points, the first two  *)
(* owned (domain) and the last one a halo copy; three edges; a wall marker *)
(* with one owned and one halo vertex, and a second marker.                *)
(***************************************************************************)
nDim == 2
nVar == nDim + 2
Vars == 0..(nVar - 1)
Dims == 0..(nDim - 1)
Points == {0, 1, 2}
DomainPoints == {0, 1}
GetDomain(iPoint) == iPoint \in DomainPoints

Edges == << [n0 |-> 0, n1 |-> 1, Normal |-> <<1, 0>>],
            [n0 |-> 1, n1 |-> 2, Normal |-> <<0, 2>>],
            [n0 |-> 0, n1 |-> 2, Normal |-> <<1, 0>>] >>
nEdge == Len(Edges)

Markers == {0, 1, 2}
WallMarkers == {0}
Vertex == [iMarker \in Markers |->
             IF iMarker = 0
             THEN << [Node |-> 0, Normal |-> <<0, 2>>, Normal_Neighbor |-> 1],
                     [Node |-> 2, Normal |-> <<0, 1>>, Normal_Neighbor |-> 1] >>
             ELSE << [Node |-> 1, Normal |-> <<1, 0>>, Normal_Neighbor |-> 0] >>]
\* config->GetMarker_All_KindBC
KindBC == [iMarker \in Markers |->
             IF iMarker = 0 THEN "HEAT_FLUX"
             ELSE IF iMarker = 1 THEN "PERIODIC_BOUNDARY"
             ELSE "INTERNAL_BOUNDARY"]

Coord == [iPoint \in Points |->
            IF iPoint = 0 THEN <<R(0), R(0)>>
            ELSE IF iPoint = 1 THEN <<R(0), <<1, 100>>>>
            ELSE <<R(1), R(0)>>]
GridVel == [iPoint \in Points |-> <<R(iPoint + 1), R(-1)>>]

\* sqrt of the sum of the squared components of an integer normal
NormOf(Normal) == ISqrt(Normal[1] * Normal[1] + Normal[2] * Normal[2])

(***************************************************************************)
(* Assembly: CSysVector / CSysMatrix / CVariable operations the solver     *)
(* calls.  A matrix row or column index is iPoint*nVar+iVar.               *)
(***************************************************************************)
ZeroVec == [iVar \in Vars |-> RZero]
ZeroBlock == [iVar \in Vars |-> [jVar \in Vars |-> RZero]]
ZeroRes == [iPoint \in Points |-> ZeroVec]
\* The block matrix: Jacobian[iPoint][jPoint] is the nVar x nVar block of the
\* rows of iPoint and the columns of jPoint (every pair of points of this
\* mesh shares an edge, so every block is in the sparsity pattern).
ZeroJac == [iPoint \in Points |-> [jPoint \in Points |-> ZeroBlock]]

\* CSysVector::SubtractBlock, AddBlock, SetBlock_Zero(iPoint, iVar)
SubtractBlock(res, iPoint, block) ==
  [res EXCEPT ![iPoint] = [iVar \in Vars |-> RSub(res[iPoint][iVar], block[iVar])]]
AddBlock(res, iPoint, block) ==
  [res EXCEPT ![iPoint] = [iVar \in Vars |-> RAdd(res[iPoint][iVar], block[iVar])]]
SetBlock_Zero(res, iPoint, iVar) == [res EXCEPT ![iPoint][iVar] = RZero]

\* block (iPoint, jPoint) of the matrix plus sign*block
AddToBlock(jac, iPoint, jPoint, block, sign) ==
  [jac EXCEPT ![iPoint][jPoint] =
     [iVar \in Vars |-> [jVar \in Vars |->
        RAdd(jac[iPoint][jPoint][iVar][jVar], RMul(R(sign), block[iVar][jVar]))]]]

\* CSysMatrix::UpdateBlocksSub: (i,i) -= block_i, (i,j) -= block_j,
\*                              (j,i) += block_i, (j,j) += block_j
UpdateBlocksSub(jac, iPoint, jPoint, block_i, block_j) ==
  AddToBlock(AddToBlock(AddToBlock(AddToBlock(jac,
    iPoint, iPoint, block_i, -1), iPoint, jPoint, block_j, -1),
    jPoint, iPoint, block_i, 1), jPoint, jPoint, block_j, 1)

\* CSysMatrix::SubtractBlock2Diag
SubtractBlock2Diag(jac, iPoint, block) == AddToBlock(jac, iPoint, iPoint, block, -1)

\* CSysMatrix::DeleteValsRowi(i), i = iPoint*nVar+iVar: the scalar row i
\* becomes a row of the identity.
DeleteValsRowi(jac, i) ==
  LET iPoint == i \div nVar
      iVar == i % nVar
  IN  [jac EXCEPT ![iPoint] =
         [jPoint \in Points |->
            [jac[iPoint][jPoint] EXCEPT ![iVar] =
               [jVar \in Vars |-> IF jPoint = iPoint /\ jVar = iVar
                                  THEN R(1) ELSE RZero]]]]

\* The scalar row i = iPoint*nVar+iVar of the matrix, by scalar column.
JacRow(jac, i) ==
  [c \in 0..(Cardinality(Points) * nVar - 1) |->
     jac[i \div nVar][c \div nVar][i % nVar][c % nVar]]

\* The state the assembly procedures work on, as one record.
AsmState == [res |-> LinSysRes, jac |-> Jacobian, old |-> Solution_Old,
             trunc |-> Res_TruncError, resVisc |-> Res_Visc, jacI |-> Jacobian_i,
             fatal |-> fatal, nEval |-> [iEdge \in 1..Len(Edges) |-> 0]]

(***************************************************************************)
(* CIncNSSolver::Viscous_Residual                                          *)
(***************************************************************************)
\* What numerics->ComputeResidual may return for an edge: a flux vector and
\* the two Jacobian blocks.
FluxOf(a) == [residual   |-> [iVar \in Vars |-> R(a * (iVar + 1))],
              jacobian_i |-> [iVar \in Vars |-> [jVar \in Vars |-> R(a + jVar)]],
              jacobian_j |-> [iVar \in Vars |-> [jVar \in Vars |-> R(2 * a - iVar)]]]
\* The results of one pass over the edges: a flux for every edge.
FluxPasses == {[iEdge \in 1..nEdge |-> FluxOf(iEdge)],
               [iEdge \in 1..nEdge |-> FluxOf(2 - 3 * iEdge)]}

\* Mutant: the flux is added to the residual of the first node too.
Viscous_Edge_SameSign(S, iEdge, f) ==
  LET iPoint == Edges[iEdge].n0
      jPoint == Edges[iEdge].n1
  IN  [S EXCEPT !.res = AddBlock(AddBlock(S.res, iPoint, f.residual), jPoint, f.residual),
                !.nEval = [S.nEval EXCEPT ![iEdge] = @ + 1]]

\* Lines 889-922: one edge of the loop, f the functor's result for it.
Viscous_Edge(S, iEdge, f) ==
  LET iPoint == Edges[iEdge].n0
      jPoint == Edges[iEdge].n1
      res1 == SubtractBlock(S.res, iPoint, f.residual)
      res2 == AddBlock(res1, jPoint, f.residual)
  IN  [S EXCEPT !.res = res2,
                !.nEval = [S.nEval EXCEPT ![iEdge] = @ + 1],
                !.jac = IF asmCfg.implicit
                        THEN UpdateBlocksSub(S.jac, iPoint, jPoint,
                                             f.jacobian_i, f.jacobian_j)
                        ELSE S.jac]

RECURSIVE Viscous_Loop(_, _, _)
Viscous_Loop(S, iEdge, fl) ==
  IF iEdge > nEdge THEN S
  ELSE Viscous_Loop(Viscous_Edge(S, iEdge, fl[iEdge]), iEdge + 1, fl)

(***************************************************************************)
(* Configuration values and point states the wall procedures read.         *)
(***************************************************************************)
Wall_HeatFlux == R(6)
Heat_Flux_Ref == R(2)
Isothermal_Temperature == R(600)
Temperature_Ref == R(2)
Viscosity_Ref == R(2)
Temperature_FreeStreamND == R(288)
Temperature == [iPoint \in Points |-> R(350 + 10 * iPoint - 10)]
ThermalConductivity == [iPoint \in Points |-> <<13, 500>>]

WallFunctions == {"NO_WALL_FUNCTION", "STANDARD_WALL_FUNCTION"}
CHTKinds == {"AVERAGED_TEMPERATURE_NEUMANN_HEATFLUX", "AVERAGED_TEMPERATURE_ROBIN_HEATFLUX",
             "DIRECT_TEMPERATURE_NEUMANN_HEATFLUX", "DIRECT_TEMPERATURE_ROBIN_HEATFLUX",
             "OTHER_CHT_COUPLING"}
nHeatConjugateVar == 4

\* Euclidean distance between two points (lines 1117-1122, 1253-1258)
DistSq(iPoint, jPoint) ==
  RAdd(RMul(RSub(Coord[jPoint][1], Coord[iPoint][1]), RSub(Coord[jPoint][1], Coord[iPoint][1])),
       RMul(RSub(Coord[jPoint][2], Coord[iPoint][2]), RSub(Coord[jPoint][2], Coord[iPoint][2])))
Dist(iPoint, jPoint) == RSqrt(DistSq(iPoint, jPoint))

\* Mutant: the loop over the velocity rows starts at row 0 and misses the last one.
VelRows_OffByOne(iPoint) == {iPoint * nVar + iVar : iVar \in 0..(nDim - 1)}

\* total_index = iPoint*nVar+iVar for iVar = 1..nDim
VelRows(iPoint) == {iPoint * nVar + iVar : iVar \in 1..nDim}

RECURSIVE DeleteRows(_, _)
DeleteRows(jac, rows) ==
  IF rows = {} THEN jac
  ELSE LET i == CHOOSE x \in rows : TRUE
       IN  DeleteRows(DeleteValsRowi(jac, i), rows \ {i})

\* The wall velocity: the grid velocity on a dynamic grid, zero otherwise.
WallVelocity(iPoint) ==
  IF asmCfg.dynamic_grid THEN GridVel[iPoint] ELSE <<RZero, RZero>>

\* Lines 972-1001 (1069-1098, 1209-1238): scratch reset and strong velocity condition.
StrongVelocity(S, iPoint) ==
  [S EXCEPT !.resVisc = ZeroVec,
            !.jacI = IF asmCfg.implicit THEN ZeroBlock ELSE S.jacI,
            !.old = [S.old EXCEPT ![iPoint] =
                       [iVar \in Vars |-> IF iVar \in 1..nDim
                                          THEN WallVelocity(iPoint)[iVar]
                                          ELSE S.old[iPoint][iVar]]],
            !.res = [S.res EXCEPT ![iPoint] =
                       [iVar \in Vars |-> IF iVar \in 1..nDim THEN RZero
                                          ELSE S.res[iPoint][iVar]]],
            !.trunc = [S.trunc EXCEPT ![iPoint] =
                       [iVar \in Vars |-> IF iVar \in 1..nDim THEN RZero
                                          ELSE S.trunc[iPoint][iVar]]]]

\* Mutant: the energy row is deleted together with the velocity rows.
DeleteVelocityRows_AndEnergy(S, iPoint) ==
  IF asmCfg.implicit
  THEN [S EXCEPT !.jac = DeleteRows(S.jac, VelRows(iPoint) \cup {iPoint * nVar + nDim + 1})]
  ELSE S

\* Mutant: the velocity rows are deleted whatever the scheme.
DeleteVelocityRows_Always(S, iPoint) ==
  [S EXCEPT !.jac = DeleteRows(S.jac, VelRows(iPoint))]

\* Lines 1019-1024 (1164-1169, 1291-1295): the velocity rows of the Jacobian.
DeleteVelocityRows(S, iPoint) ==
  IF asmCfg.implicit THEN [S EXCEPT !.jac = DeleteRows(S.jac, VelRows(iPoint))] ELSE S

\* Mutant: the prescribed flux is not divided by the reference heat flux.
HeatFlux_Term_NoRef(Area) == RMul(Wall_HeatFlux, Area)

\* Lines 945 and 1007: (Wall_HeatFlux/Heat_Flux_Ref)*Area
HeatFlux_Term(Area) == RMul(RDiv(Wall_HeatFlux, Heat_Flux_Ref), Area)

\* BC_HeatFlux_Wall, one vertex of the loop (lines 957-1026).
HeatFlux_Vertex(S, val_marker, iVertex) ==
  LET v == Vertex[val_marker][iVertex]
      iPoint == v.Node
      Area == R(NormOf(v.Normal))
      S1 == StrongVelocity(S, iPoint)
      resVisc == [S1.resVisc EXCEPT ![nDim + 1] = HeatFlux_Term(Area)]
      S2 == IF asmCfg.energy
            THEN [S1 EXCEPT !.resVisc = resVisc,
                            !.res = SubtractBlock(S1.res, iPoint, resVisc)]
            ELSE S1
  IN  IF GetDomain(iPoint) THEN DeleteVelocityRows(S2, iPoint) ELSE S

\* Mutant: the temperature difference is taken the other way round.
Normal_Gradient_Reversed(Twall, Tneighbor, dist_ij) ==
  RDiv(RSub(Tneighbor, Twall), dist_ij)

\* Line 1126: dTdn = -(T(Point_Normal) - Twall)/dist_ij
Normal_Gradient(Twall, Tneighbor, dist_ij) ==
  RNeg(RDiv(RSub(Tneighbor, Twall), dist_ij))

\* BC_Isothermal_Wall, one vertex of the loop (lines 1063-1171).
Isothermal_Vertex(S, val_marker, iVertex) ==
  LET v == Vertex[val_marker][iVertex]
      iPoint == v.Node
      Point_Normal == v.Normal_Neighbor
      Twall == RDiv(Isothermal_Temperature, Temperature_Ref)
      Area == R(NormOf(v.Normal))
      dist_ij == Dist(iPoint, Point_Normal)
      dTdn == Normal_Gradient(Twall, Temperature[Point_Normal], dist_ij)
      thermal_conductivity == ThermalConductivity[iPoint]
      S1 == StrongVelocity(S, iPoint)
      resVisc == [S1.resVisc EXCEPT ![nDim + 1] =
                    RMul(RMul(thermal_conductivity, dTdn), Area)]
      dist_ij_2 == DistSq(iPoint, Point_Normal)
      dot == RAdd(RMul(RSub(Coord[Point_Normal][1], Coord[iPoint][1]), R(v.Normal[1])),
                  RMul(RSub(Coord[Point_Normal][2], Coord[iPoint][2]), R(v.Normal[2])))
      proj_vector_ij == IF dist_ij_2 = RZero THEN RZero ELSE RDiv(dot, dist_ij_2)
      jacI == [S1.jacI EXCEPT ![nDim + 1][nDim + 1] =
                 RNeg(RMul(thermal_conductivity, proj_vector_ij))]
      S2 == IF ~asmCfg.energy THEN S1
            ELSE [S1 EXCEPT !.resVisc = resVisc,
                            !.jacI = IF asmCfg.implicit THEN jacI ELSE S1.jacI,
                            !.jac = IF asmCfg.implicit
                                    THEN SubtractBlock2Diag(S1.jac, iPoint, jacI)
                                    ELSE S1.jac,
                            !.res = SubtractBlock(S1.res, iPoint, resVisc)]
  IN  IF GetDomain(iPoint) THEN DeleteVelocityRows(S2, iPoint) ELSE S

\* Mutant: the weighted sum is divided by the local factor alone.
Averaged_Twall_HereOnly(There, HF_FactorHere, Tconjugate, HF_FactorConjugate) ==
  RDiv(RAdd(RMul(There, HF_FactorHere), RMul(Tconjugate, HF_FactorConjugate)), HF_FactorHere)

\* Mutant: each temperature is weighted with the factor of the other side.
Averaged_Twall_Swapped(There, HF_FactorHere, Tconjugate, HF_FactorConjugate) ==
  RDiv(RAdd(RMul(There, HF_FactorConjugate), RMul(Tconjugate, HF_FactorHere)),
       RAdd(HF_FactorHere, HF_FactorConjugate))

\* Line 1267: (There*HF_FactorHere + Tconjugate*HF_FactorConjugate)
\*            /(HF_FactorHere + HF_FactorConjugate)
Averaged_Twall(There, HF_FactorHere, Tconjugate, HF_FactorConjugate) ==
  RDiv(RAdd(RMul(There, HF_FactorHere), RMul(Tconjugate, HF_FactorConjugate)),
       RAdd(HF_FactorHere, HF_FactorConjugate))

\* Mutant: the row deleted for the energy equation is the pressure row.
EnergyRow_Pressure(iPoint) == iPoint * nVar

\* Line 1297: total_index = iPoint*nVar+nDim+1
EnergyRow(iPoint) == iPoint * nVar + nDim + 1

\* BC_ConjugateHeat_Interface, one vertex of the loop (lines 1205-1301).
\* SU2_MPI::Error ends the run at the call: nothing after it is executed.
CHT_Vertex(S, val_marker, iVertex) ==
  LET v == Vertex[val_marker][iVertex]
      iPoint == v.Node
      Point_Normal == v.Normal_Neighbor
      kind == asmCfg.Kind_CHT_Coupling
      averaged == kind \in {"AVERAGED_TEMPERATURE_NEUMANN_HEATFLUX",
                            "AVERAGED_TEMPERATURE_ROBIN_HEATFLUX"}
      direct == kind \in {"DIRECT_TEMPERATURE_NEUMANN_HEATFLUX",
                          "DIRECT_TEMPERATURE_ROBIN_HEATFLUX"}
      Tconjugate == RDiv(HeatConjugateVar[val_marker][iVertex][0], Temperature_Ref)
      dist_ij == Dist(iPoint, Point_Normal)
      thermal_conductivity == ThermalConductivity[iPoint]
      There == Temperature[Point_Normal]
      HF_FactorHere == RDiv(RMul(thermal_conductivity, asmCfg.Viscosity_Ref), dist_ij)
      HF_FactorConjugate == HeatConjugateVar[val_marker][iVertex][2]
      Twall == IF averaged
               THEN Averaged_Twall(There, HF_FactorHere, Tconjugate, HF_FactorConjugate)
               ELSE Tconjugate
      S1 == StrongVelocity(S, iPoint)
      S2 == IF ~asmCfg.energy THEN S1
            ELSE [S1 EXCEPT !.res = SetBlock_Zero(S1.res, iPoint, nDim + 1),
                            !.old = [S1.old EXCEPT ![iPoint][nDim + 1] = Twall],
                            !.trunc = [S1.trunc EXCEPT ![iPoint][nDim + 1] = RZero]]
      S3 == DeleteVelocityRows(S2, iPoint)
      S4 == IF asmCfg.implicit /\ asmCfg.energy
            THEN [S3 EXCEPT !.jac = DeleteValsRowi(S3.jac, EnergyRow(iPoint))]
            ELSE S3
  IN  IF S.fatal \/ ~GetDomain(iPoint) THEN S
      ELSE IF asmCfg.energy /\ ~averaged /\ ~direct THEN [S1 EXCEPT !.fatal = TRUE]
      ELSE S4

\* The loop over the vertices of the marker, for one of the three procedures.
RECURSIVE Vertex_Loop(_, _, _, _)
Vertex_Loop(S, bc, val_marker, iVertex) ==
  IF iVertex > Len(Vertex[val_marker]) THEN S
  ELSE LET S1 == IF bc = "BC_HeatFlux_Wall" THEN HeatFlux_Vertex(S, val_marker, iVertex)
                 ELSE IF bc = "BC_Isothermal_Wall" THEN Isothermal_Vertex(S, val_marker, iVertex)
                 ELSE CHT_Vertex(S, val_marker, iVertex)
       IN  Vertex_Loop(S1, bc, val_marker, iVertex + 1)

(***************************************************************************)
(* The assembly procedures as actions of one process.                      *)
(***************************************************************************)
MaxAsmCalls == 2   \* assembly procedure calls in one behaviour

AsmInit ==
  /\ LinSysRes = ZeroRes
  /\ Jacobian = ZeroJac
  /\ Solution_Old = [iPoint \in Points |-> [iVar \in Vars |-> R(iVar + 3)]]
  /\ Res_TruncError = ZeroRes
  /\ Res_Visc = ZeroVec
  /\ Jacobian_i = ZeroBlock
  /\ HeatConjugateVar = [iMarker \in Markers |->
                          [iVertex \in 1..Len(Vertex[iMarker]) |->
                            [iVar \in 0..(nHeatConjugateVar - 1) |->
                              IF iVar = 0 THEN Temperature_FreeStreamND ELSE RZero]]]
  /\ asmCfg \in [implicit : BOOLEAN, energy : BOOLEAN, dynamic_grid : BOOLEAN,
                 Wall_Function : WallFunctions, Kind_CHT_Coupling : CHTKinds,
                 Viscosity_Ref : {Viscosity_Ref}]
  /\ fatal = FALSE
  /\ hist = [op |-> "none", marker |-> 0, calls |-> 0,
             nEval |-> [iEdge \in 1..nEdge |-> 0]]

AsmIdle ==
  /\ LinSysRes = ZeroRes
  /\ Jacobian = ZeroJac
  /\ Solution_Old = ZeroRes
  /\ Res_TruncError = ZeroRes
  /\ Res_Visc = ZeroVec
  /\ Jacobian_i = ZeroBlock
  /\ HeatConjugateVar = <<>>
  /\ asmCfg = [implicit |-> FALSE]
  /\ fatal = FALSE
  /\ hist = [op |-> "none"]

AsmGuard == ~fatal /\ hist.calls < MaxAsmCalls

\* Writes a record of the assembly state back to the solver's fields.
AsmStore(S, op, val_marker) ==
  /\ LinSysRes' = S.res
  /\ Jacobian' = S.jac
  /\ Solution_Old' = S.old
  /\ Res_TruncError' = S.trunc
  /\ Res_Visc' = S.resVisc
  /\ Jacobian_i' = S.jacI
  /\ fatal' = S.fatal
  /\ hist' = [op |-> op, marker |-> val_marker, calls |-> hist.calls + 1,
              nEval |-> S.nEval]
  /\ UNCHANGED <<HeatConjugateVar, asmCfg>>

Viscous_Residual ==
  /\ AsmGuard
  /\ \E fl \in FluxPasses :
       AsmStore(Viscous_Loop(AsmState, 1, fl), "Viscous_Residual", 0)

BC_HeatFlux_Wall(val_marker) ==
  /\ AsmGuard
  /\ AsmStore(Vertex_Loop(AsmState, "BC_HeatFlux_Wall", val_marker, 1),
              "BC_HeatFlux_Wall", val_marker)

BC_Isothermal_Wall(val_marker) ==
  /\ AsmGuard
  /\ IF asmCfg.Wall_Function # "NO_WALL_FUNCTION"
     THEN AsmStore([AsmState EXCEPT !.fatal = TRUE], "BC_Isothermal_Wall", val_marker)
     ELSE AsmStore(Vertex_Loop(AsmState, "BC_Isothermal_Wall", val_marker, 1),
                   "BC_Isothermal_Wall", val_marker)

BC_ConjugateHeat_Interface(val_marker) ==
  /\ AsmGuard
  /\ IF asmCfg.Wall_Function # "NO_WALL_FUNCTION"
     THEN AsmStore([AsmState EXCEPT !.fatal = TRUE], "BC_ConjugateHeat_Interface", val_marker)
     ELSE AsmStore(Vertex_Loop(AsmState, "BC_ConjugateHeat_Interface", val_marker, 1),
                   "BC_ConjugateHeat_Interface", val_marker)

\* Preprocessing as the assembly of one process sees it: the residual block
\* of every point is zeroed in SetPrimitive_Variables (line 638) and the
\* Jacobian at line 572, both unless Output.
Preprocessing(Output) ==
  /\ AsmGuard
  /\ AsmStore([AsmState EXCEPT !.res = IF Output THEN @ ELSE ZeroRes,
                               !.jac = IF asmCfg.implicit /\ ~Output THEN ZeroJac ELSE @],
              "Preprocessing", 0)

\* CNSSolver::SetConjugateHeatVariable (CNSSolver.hpp): the coupling driver
\* stores a value received from the other zone, under-relaxed.
\* Mutant: the weights of the new and the stored value are exchanged.
Relaxed_Swapped(relaxation_factor, val_var, old) ==
  RAdd(RMul(RSub(R(1), relaxation_factor), val_var), RMul(relaxation_factor, old))

Relaxed(relaxation_factor, val_var, old) ==
  RAdd(RMul(relaxation_factor, val_var), RMul(RSub(R(1), relaxation_factor), old))

ConjugateVals == {R(400), <<26, 5>>}
RelaxationFactors == {R(1), <<1, 2>>, RZero}
ConjugatePositions == {0, 2}

\* CNSSolver::GetConjugateHeatVariable (CNSSolver.hpp)
GetConjugateHeatVariable(val_marker, val_vertex, pos_var) ==
  HeatConjugateVar[val_marker][val_vertex][pos_var]

SetConjugateHeatVariable(val_marker, val_vertex, pos_var, relaxation_factor, val_var) ==
  /\ AsmGuard
  /\ HeatConjugateVar' =
       [HeatConjugateVar EXCEPT ![val_marker][val_vertex][pos_var] =
          Relaxed(relaxation_factor, val_var, @)]
  /\ hist' = [hist EXCEPT !.op = "SetConjugateHeatVariable", !.marker = val_marker,
                          !.calls = @ + 1]
  /\ UNCHANGED <<LinSysRes, Jacobian, Solution_Old, Res_TruncError, Res_Visc, Jacobian_i,
                 asmCfg, fatal>>

\* The conjugate-heat interface of a run with the energy equation and a
\* recognized coupling kind; the reference viscosity may be zero.
ChtInit ==
  /\ LinSysRes = ZeroRes
  /\ Jacobian = ZeroJac
  /\ Solution_Old = [iPoint \in Points |-> [iVar \in Vars |-> R(iVar + 3)]]
  /\ Res_TruncError = ZeroRes
  /\ Res_Visc = ZeroVec
  /\ Jacobian_i = ZeroBlock
  /\ HeatConjugateVar = [iMarker \in Markers |->
                          [iVertex \in 1..Len(Vertex[iMarker]) |->
                            [iVar \in 0..(nHeatConjugateVar - 1) |->
                              IF iVar = 0 THEN Temperature_FreeStreamND ELSE RZero]]]
  /\ asmCfg \in [implicit : BOOLEAN, energy : {TRUE}, dynamic_grid : {FALSE},
                 Wall_Function : {"NO_WALL_FUNCTION"},
                 Kind_CHT_Coupling : CHTKinds \ {"OTHER_CHT_COUPLING"},
                 Viscosity_Ref : {Viscosity_Ref, RZero}]
  /\ fatal = FALSE
  /\ hist = [op |-> "none", marker |-> 0, calls |-> 0,
             nEval |-> [iEdge \in 1..nEdge |-> 0]]

(***************************************************************************)
(* CIncNSSolver::SetTime_Step, run by every process of the partitioned     *)
(* mesh.  Every process holds the local mesh above with its own volumes;   *)
(* the MPI reductions are joint steps of all processes.                    *)
(***************************************************************************)
Ranks == {0, 1}
MaxTsCalls == 2    \* calls of SetTime_Step in one behaviour

K_v == <<1, 4>>
Huge == <<1, 0>>                     \* 1.E30 (lines 657, 850)
Global_Delta_Time_Init == R(1000000) \* 1E6 (line 646)

\* Point states read through nodes-> (the same on every process).
Velocity == [iPoint \in Points |-> IF iPoint = 1 THEN <<RZero, <<1, 10>>>>
                                    ELSE <<<<1, 10>>, <<iPoint \div 2, 10>>>>]
BetaInc2 == [iPoint \in Points |-> <<1, 100>>]
Density == [iPoint \in Points |-> R(1 + (iPoint % 2))]
LaminarViscosity == [iPoint \in Points |-> <<3, 10>>]
EddyViscosity == [iPoint \in Points |-> RZero]
SpecificHeatCv == [iPoint \in Points |-> <<13, 100>>]

VolVals == {0, 2, 20, 100}
TimeMarchings == {"STEADY", "TIME_STEPPING", "DT_STEPPING_1ST", "DT_STEPPING_2ND"}
CommLevels == {"COMM_FULL", "COMM_MINIMAL"}
MESH_0 == 0

dual_time == tsCfg.Time_Marching \in {"DT_STEPPING_1ST", "DT_STEPPING_2ND"}
Half == <<1, 2>>

\* nodes->GetProjVel(iPoint, Normal) and the projected grid velocity
GetProjVel(iPoint, Normal) ==
  RAdd(RMul(Velocity[iPoint][1], R(Normal[1])), RMul(Velocity[iPoint][2], R(Normal[2])))
GridProjVel(iPoint, Normal) ==
  RAdd(RMul(GridVel[iPoint][1], R(Normal[1])), RMul(GridVel[iPoint][2], R(Normal[2])))

\* Lines 672-700: the inviscid contribution of an interior edge.
Edge_Lambda_Inv(iEdge, dynamic_grid) ==
  LET iPoint == Edges[iEdge].n0
      jPoint == Edges[iEdge].n1
      Normal == Edges[iEdge].Normal
      Area == R(NormOf(Normal))
      Mean_ProjVel == RMul(Half, RAdd(GetProjVel(iPoint, Normal), GetProjVel(jPoint, Normal)))
      Mean_BetaInc2 == RMul(Half, RAdd(BetaInc2[iPoint], BetaInc2[jPoint]))
      Mean_SoundSpeed == RSqrt(RMul(RMul(Mean_BetaInc2, Area), Area))
      Adjusted == IF dynamic_grid
                  THEN RSub(Mean_ProjVel,
                            RMul(Half, RAdd(GridProjVel(iPoint, Normal), GridProjVel(jPoint, Normal))))
                  ELSE Mean_ProjVel
  IN  RAdd(RAbs(Adjusted), Mean_SoundSpeed)

\* Lines 706-715: the viscous contribution of an interior edge.
Edge_Lambda_Visc(iEdge, energy) ==
  LET iPoint == Edges[iEdge].n0
      jPoint == Edges[iEdge].n1
      Area == R(NormOf(Edges[iEdge].Normal))
      Mean_LaminarVisc == RMul(Half, RAdd(LaminarViscosity[iPoint], LaminarViscosity[jPoint]))
      Mean_EddyVisc == RMul(Half, RAdd(EddyViscosity[iPoint], EddyViscosity[jPoint]))
      Mean_Density == RMul(Half, RAdd(Density[iPoint], Density[jPoint]))
      Mean_Thermal_Conductivity ==
        RMul(Half, RAdd(ThermalConductivity[iPoint], ThermalConductivity[jPoint]))
      Mean_Cv == RMul(Half, RAdd(SpecificHeatCv[iPoint], SpecificHeatCv[jPoint]))
      Lambda_1 == RMul(<<4, 3>>, RAdd(Mean_LaminarVisc, Mean_EddyVisc))
      Lambda_2 == IF energy THEN RMul(RDiv(R(1), Mean_Cv), Mean_Thermal_Conductivity)
                  ELSE RZero
  IN  RDiv(RMul(RMul(RAdd(Lambda_1, Lambda_2), Area), Area), Mean_Density)

\* Lines 731-754: the inviscid contribution of a boundary vertex.
Vertex_Lambda_Inv(iMarker, iVertex, dynamic_grid) ==
  LET iPoint == Vertex[iMarker][iVertex].Node
      Normal == Vertex[iMarker][iVertex].Normal
      Area == R(NormOf(Normal))
      Mean_ProjVel == GetProjVel(iPoint, Normal)
      Mean_SoundSpeed == RSqrt(RMul(RMul(BetaInc2[iPoint], Area), Area))
      Adjusted == IF dynamic_grid THEN RSub(Mean_ProjVel, GridProjVel(iPoint, Normal))
                  ELSE Mean_ProjVel
  IN  RAdd(RAbs(Adjusted), Mean_SoundSpeed)

\* Lines 761-770: the viscous contribution of a boundary vertex.
Vertex_Lambda_Visc(iMarker, iVertex, energy) ==
  LET iPoint == Vertex[iMarker][iVertex].Node
      Area == R(NormOf(Vertex[iMarker][iVertex].Normal))
      Lambda_1 == RMul(<<4, 3>>, RAdd(LaminarViscosity[iPoint], EddyViscosity[iPoint]))
      Lambda_2 == IF energy
                  THEN RMul(RDiv(R(1), SpecificHeatCv[iPoint]), ThermalConductivity[iPoint])
                  ELSE RZero
  IN  RDiv(RMul(RMul(RAdd(Lambda_1, Lambda_2), Area), Area), Density[iPoint])

\* AddMax_Lambda_Inv / AddMax_Lambda_Visc on a domain point
AddLambda(L, iPoint, inv, visc) ==
  IF GetDomain(iPoint)
  THEN [inv |-> [L.inv EXCEPT ![iPoint] = RAdd(@, inv)],
        visc |-> [L.visc EXCEPT ![iPoint] = RAdd(@, visc)]]
  ELSE L

\* Lines 668-720: the loop over the interior edges.
RECURSIVE Edge_Loop(_, _, _, _)
Edge_Loop(L, iEdge, energy, dynamic_grid) ==
  IF iEdge > nEdge THEN L
  ELSE LET Lambda_Inv == Edge_Lambda_Inv(iEdge, dynamic_grid)
           Lambda_Visc == Edge_Lambda_Visc(iEdge, energy)
       IN  Edge_Loop(AddLambda(AddLambda(L, Edges[iEdge].n0, Lambda_Inv, Lambda_Visc),
                               Edges[iEdge].n1, Lambda_Inv, Lambda_Visc),
                     iEdge + 1, energy, dynamic_grid)

\* Mutant: the periodic and internal markers are not skipped.
MarkerCounts_All(iMarker) == TRUE

\* Lines 725-726: the markers whose vertices contribute.
MarkerCounts(iMarker) ==
  KindBC[iMarker] # "INTERNAL_BOUNDARY" /\ KindBC[iMarker] # "PERIODIC_BOUNDARY"

\* Lines 724-776: the loop over the markers and their vertices.
RECURSIVE Marker_Loop(_, _, _, _, _)
Marker_Loop(L, iMarker, iVertex, energy, dynamic_grid) ==
  IF iMarker \notin Markers THEN L
  ELSE IF ~MarkerCounts(iMarker) \/ iVertex > Len(Vertex[iMarker])
       THEN Marker_Loop(L, iMarker + 1, 1, energy, dynamic_grid)
       ELSE Marker_Loop(AddLambda(L, Vertex[iMarker][iVertex].Node,
                                  Vertex_Lambda_Inv(iMarker, iVertex, dynamic_grid),
                                  Vertex_Lambda_Visc(iMarker, iVertex, energy)),
                        iMarker, iVertex + 1, energy, dynamic_grid)

nPointDomain == Cardinality(DomainPoints)
ZeroPoints == [iPoint \in Points |-> RZero]

\* Lines 661-776: the spectral radii of the local points after the reset and
\* both loops, for each setting of the energy equation and of the moving grid.
Spectral_Radii ==
  [energy \in BOOLEAN, dynamic_grid \in BOOLEAN |->
     Marker_Loop(Edge_Loop([inv |-> ZeroPoints, visc |-> ZeroPoints], 1, energy, dynamic_grid),
                 0, 1, energy, dynamic_grid)]

\* Mutant: the quotient of the inviscid step is inverted.
Stable_Step_Inverted(cfl, Vol, lambda_inv, lambda_visc) ==
  RMin(RDiv(RMul(cfl, lambda_inv), R(Vol)),
       RDiv(RMul(RMul(RMul(cfl, K_v), R(Vol)), R(Vol)), lambda_visc))

\* Lines 785-787: min(CFL*Vol/lambda_inv, CFL*K_v*Vol*Vol/lambda_visc)
Stable_Step(cfl, Vol, lambda_inv, lambda_visc) ==
  RMin(RDiv(RMul(cfl, R(Vol)), lambda_inv),
       RDiv(RMul(RMul(RMul(cfl, K_v), R(Vol)), R(Vol)), lambda_visc))

\* Line 796: the step stored for a point of zero volume
Zero_Volume_Step == RZero

\* Lines 791-792: the clip to config->GetMax_DeltaTime()
Clip_Max(dt) == IF RLt(tsCfg.Max_DeltaTime, dt) THEN tsCfg.Max_DeltaTime ELSE dt

\* Mutant: the largest step is taken from the steps after the clip.
RECURSIVE Point_Loop_MaxAfterClip(_, _, _, _)
Point_Loop_MaxAfterClip(T, r, L, iPoint) ==
  IF iPoint >= nPointDomain THEN T
  ELSE LET Vol == tsCfg.Volume[r][iPoint]
           Local_Delta_Time == Stable_Step(LocalCFL[r][iPoint], Vol,
                                           L.inv[iPoint], L.visc[iPoint])
       IN  IF Vol # 0
           THEN Point_Loop_MaxAfterClip(
                  [dt |-> [T.dt EXCEPT ![iPoint] = Clip_Max(Local_Delta_Time)],
                   glob |-> RMin(T.glob, Local_Delta_Time),
                   min |-> RMin(T.min, Local_Delta_Time),
                   max |-> RMax(T.max, Clip_Max(Local_Delta_Time)),
                   log |-> [T.log EXCEPT ![iPoint] = Local_Delta_Time]],
                  r, L, iPoint + 1)
           ELSE Point_Loop_MaxAfterClip(
                  [T EXCEPT !.dt = [T.dt EXCEPT ![iPoint] = Zero_Volume_Step],
                            !.log = [T.log EXCEPT ![iPoint] = <<-1, 1>>]],
                  r, L, iPoint + 1)

\* Lines 780-799: the loop over the domain points of process r; T carries
\* Delta_Time, Global_Delta_Time, Min_Delta_Time, Max_Delta_Time and the
\* step of each point before the clip.
RECURSIVE Point_Loop(_, _, _, _)
Point_Loop(T, r, L, iPoint) ==
  IF iPoint >= nPointDomain THEN T
  ELSE LET Vol == tsCfg.Volume[r][iPoint]
           Local_Delta_Time == Stable_Step(LocalCFL[r][iPoint], Vol,
                                           L.inv[iPoint], L.visc[iPoint])
       IN  IF Vol # 0
           THEN Point_Loop([dt |-> [T.dt EXCEPT ![iPoint] = Clip_Max(Local_Delta_Time)],
                            glob |-> RMin(T.glob, Local_Delta_Time),
                            min |-> RMin(T.min, Local_Delta_Time),
                            max |-> RMax(T.max, Local_Delta_Time),
                            log |-> [T.log EXCEPT ![iPoint] = Local_Delta_Time]],
                           r, L, iPoint + 1)
           ELSE Point_Loop([T EXCEPT !.dt = [T.dt EXCEPT ![iPoint] = Zero_Volume_Step],
                                     !.log = [T.log EXCEPT ![iPoint] = <<-1, 1>>]],
                           r, L, iPoint + 1)

\* Where a process is after a segment of the procedure.
After_Unst == IF dual_time THEN "clip" ELSE "done"
\* Mutant: the physical time step is recomputed on every mesh level.
After_TS_AnyMesh ==
  IF dual_time /\ callArgs.Iteration = 0 /\ tsCfg.Unst_CFL # RZero
  THEN "unstLocal" ELSE After_Unst
After_TS ==
  IF dual_time /\ callArgs.Iteration = 0 /\ tsCfg.Unst_CFL # RZero
     /\ callArgs.iMesh = MESH_0
  THEN "unstLocal" ELSE After_Unst
After_MinMax == IF tsCfg.Time_Marching = "TIME_STEPPING" THEN "atGlobal" ELSE After_TS
After_Local == IF tsCfg.Comm_Level = "COMM_FULL" THEN "atMinMax" ELSE After_MinMax

\* The call sites of the reductions (lines 802-815, 819-825, 855-862); a
\* process that reaches one has issued the collective and waits in it.
CollectivePcs == {"atMinMax", "atGlobal", "atUnst"}
LogCollectives ==
  collLog' = [r \in Ranks |-> IF pc'[r] # pc[r] /\ pc'[r] \in CollectivePcs
                              THEN Append(collLog[r], pc'[r]) ELSE collLog[r]]

\* Mutant: the spectral radii are not reset on entry, the contributions
\* are added to what the previous call left.
Accumulate_NoReset(r) ==
  /\ pc[r] = "start"
  /\ \E L0 \in {Spectral_Radii[tsCfg.energy, tsCfg.dynamic_grid]} :
     \E L \in {[inv |-> [iPoint \in Points |->
                           IF GetDomain(iPoint)
                           THEN RAdd(Max_Lambda_Inv[r][iPoint], L0.inv[iPoint])
                           ELSE Max_Lambda_Inv[r][iPoint]],
                 visc |-> [iPoint \in Points |->
                           IF GetDomain(iPoint)
                           THEN RAdd(Max_Lambda_Visc[r][iPoint], L0.visc[iPoint])
                           ELSE Max_Lambda_Visc[r][iPoint]]]} :
     \E T \in {Point_Loop([dt |-> Delta_Time[r], glob |-> Global_Delta_Time_Init,
                           min |-> Huge, max |-> RZero, log |-> stepLog[r]], r, L, 0)} :
         /\ Max_Lambda_Inv' = [Max_Lambda_Inv EXCEPT ![r] = L.inv]
         /\ Max_Lambda_Visc' = [Max_Lambda_Visc EXCEPT ![r] = L.visc]
         /\ Delta_Time' = [Delta_Time EXCEPT ![r] = T.dt]
         /\ Global_Delta_Time' = [Global_Delta_Time EXCEPT ![r] = T.glob]
         /\ Min_Delta_Time' = [Min_Delta_Time EXCEPT ![r] = T.min]
         /\ Max_Delta_Time' = [Max_Delta_Time EXCEPT ![r] = T.max]
         /\ stepLog' = [stepLog EXCEPT ![r] = T.log]
  /\ pc' = [pc EXCEPT ![r] = After_Local]
  /\ UNCHANGED <<LocalCFL, Global_Delta_UnstTimeND, Delta_UnstTimeND, tsCfg, callArgs, nCalls>>
  /\ LogCollectives

\* Lines 652-799 on process r.
Accumulate(r) ==
  /\ pc[r] = "start"
  /\ \E L \in {Spectral_Radii[tsCfg.energy, tsCfg.dynamic_grid]} :
     \E T \in {Point_Loop([dt |-> Delta_Time[r], glob |-> Global_Delta_Time_Init,
                           min |-> Huge, max |-> RZero, log |-> stepLog[r]], r, L, 0)} :
         /\ Max_Lambda_Inv' = [Max_Lambda_Inv EXCEPT ![r] =
                                 [iPoint \in Points |-> IF GetDomain(iPoint) THEN L.inv[iPoint]
                                                        ELSE Max_Lambda_Inv[r][iPoint]]]
         /\ Max_Lambda_Visc' = [Max_Lambda_Visc EXCEPT ![r] =
                                 [iPoint \in Points |-> IF GetDomain(iPoint) THEN L.visc[iPoint]
                                                        ELSE Max_Lambda_Visc[r][iPoint]]]
         /\ Delta_Time' = [Delta_Time EXCEPT ![r] = T.dt]
         /\ Global_Delta_Time' = [Global_Delta_Time EXCEPT ![r] = T.glob]
         /\ Min_Delta_Time' = [Min_Delta_Time EXCEPT ![r] = T.min]
         /\ Max_Delta_Time' = [Max_Delta_Time EXCEPT ![r] = T.max]
         /\ stepLog' = [stepLog EXCEPT ![r] = T.log]
  /\ pc' = [pc EXCEPT ![r] = After_Local]
  /\ UNCHANGED <<LocalCFL, Global_Delta_UnstTimeND, Delta_UnstTimeND, tsCfg, callArgs, nCalls>>
  /\ LogCollectives

\* MPI_MIN / MPI_MAX over the processes' values
RECURSIVE ReduceMin(_, _)
ReduceMin(buf, ranks) ==
  IF ranks = {} THEN Huge
  ELSE LET r == CHOOSE x \in ranks : TRUE
       IN  RMin(buf[r], ReduceMin(buf, ranks \ {r}))
RECURSIVE ReduceMax(_, _)
ReduceMax(buf, ranks) ==
  IF Cardinality(ranks) = 1 THEN buf[CHOOSE x \in ranks : TRUE]
  ELSE LET r == CHOOSE x \in ranks : TRUE
       IN  RMax(buf[r], ReduceMax(buf, ranks \ {r}))

\* Reduce(MPI_MIN) to the master followed by Bcast: every process gets the minimum.
AllReduceMin(buf) == [r \in Ranks |-> ReduceMin(buf, Ranks)]
AllReduceMax(buf) == [r \in Ranks |-> ReduceMax(buf, Ranks)]

\* Lines 802-815: the reductions of Min_Delta_Time and Max_Delta_Time.
Reduce_MinMax ==
  /\ \A r \in Ranks : pc[r] = "atMinMax"
  /\ Min_Delta_Time' = AllReduceMin(Min_Delta_Time)
  /\ Max_Delta_Time' = AllReduceMax(Max_Delta_Time)
  /\ pc' = [r \in Ranks |-> After_MinMax]
  /\ UNCHANGED <<Max_Lambda_Inv, Max_Lambda_Visc, Delta_Time, LocalCFL, Global_Delta_Time,
                 Global_Delta_UnstTimeND, Delta_UnstTimeND, tsCfg, callArgs, nCalls, stepLog>>
  /\ LogCollectives

\* Lines 819-825: the reduction of Global_Delta_Time in time-stepping mode.
Reduce_Global ==
  /\ \A r \in Ranks : pc[r] = "atGlobal"
  /\ Global_Delta_Time' = AllReduceMin(Global_Delta_Time)
  /\ pc' = [r \in Ranks |-> "tsAssign"]
  /\ UNCHANGED <<Max_Lambda_Inv, Max_Lambda_Visc, Delta_Time, LocalCFL, Min_Delta_Time,
                 Max_Delta_Time, Global_Delta_UnstTimeND, Delta_UnstTimeND, tsCfg, callArgs,
                 nCalls, stepLog>>
  /\ LogCollectives

\* Lines 830-843 on process r.
TimeStepping_Assign(r) ==
  /\ pc[r] = "tsAssign"
  /\ LET g == IF tsCfg.Unst_CFL = RZero THEN tsCfg.Delta_UnstTime ELSE Global_Delta_Time[r]
     IN  /\ Global_Delta_Time' = [Global_Delta_Time EXCEPT ![r] = g]
         /\ Delta_UnstTimeND' = [Delta_UnstTimeND EXCEPT ![r] = g]
         /\ LocalCFL' = [LocalCFL EXCEPT ![r] =
                           [iPoint \in Points |-> IF GetDomain(iPoint) THEN tsCfg.Unst_CFL
                                                  ELSE LocalCFL[r][iPoint]]]
         /\ Delta_Time' = [Delta_Time EXCEPT ![r] =
                           [iPoint \in Points |-> IF GetDomain(iPoint) THEN g
                                                  ELSE Delta_Time[r][iPoint]]]
         /\ Min_Delta_Time' = [Min_Delta_Time EXCEPT ![r] =
                                 IF nPointDomain > 0 THEN g ELSE @]
         /\ Max_Delta_Time' = [Max_Delta_Time EXCEPT ![r] =
                                 IF nPointDomain > 0 THEN g ELSE @]
  /\ pc' = [pc EXCEPT ![r] = After_TS]
  /\ UNCHANGED <<Max_Lambda_Inv, Max_Lambda_Visc, Global_Delta_UnstTimeND, tsCfg, callArgs,
                 nCalls, stepLog>>
  /\ LogCollectives

\* Lines 850-853 on process r.
RECURSIVE Unst_Loop(_, _, _)
Unst_Loop(g, r, iPoint) ==
  IF iPoint >= nPointDomain THEN g
  ELSE Unst_Loop(RMin(g, RDiv(RMul(tsCfg.Unst_CFL, Global_Delta_Time[r]), LocalCFL[r][iPoint])),
                 r, iPoint + 1)

Unst_LocalMin(r) ==
  /\ pc[r] = "unstLocal"
  /\ Global_Delta_UnstTimeND' = [Global_Delta_UnstTimeND EXCEPT ![r] = Unst_Loop(Huge, r, 0)]
  /\ pc' = [pc EXCEPT ![r] = "atUnst"]
  /\ UNCHANGED <<Max_Lambda_Inv, Max_Lambda_Visc, Delta_Time, LocalCFL, Min_Delta_Time,
                 Max_Delta_Time, Global_Delta_Time, Delta_UnstTimeND, tsCfg, callArgs,
                 nCalls, stepLog>>
  /\ LogCollectives

\* Lines 855-862: the reduction of Global_Delta_UnstTimeND, stored in the configuration.
Reduce_Unst ==
  /\ \A r \in Ranks : pc[r] = "atUnst"
  /\ Global_Delta_UnstTimeND' = AllReduceMin(Global_Delta_UnstTimeND)
  /\ Delta_UnstTimeND' = AllReduceMin(Global_Delta_UnstTimeND)
  /\ pc' = [r \in Ranks |-> After_Unst]
  /\ UNCHANGED <<Max_Lambda_Inv, Max_Lambda_Visc, Delta_Time, LocalCFL, Min_Delta_Time,
                 Max_Delta_Time, Global_Delta_Time, tsCfg, callArgs, nCalls, stepLog>>
  /\ LogCollectives

\* Mutant: the explicit pseudo-time step is clipped to the whole physical step.
Pseudo_Clip_Whole(dt_phys, dt) == RMin(dt_phys, dt)

\* Line 869: min((2.0/3.0)*Delta_UnstTimeND, Delta_Time)
Pseudo_Clip(dt_phys, dt) == RMin(RMul(<<2, 3>>, dt_phys), dt)

\* Lines 866-872 on process r.
DualTime_Clip(r) ==
  /\ pc[r] = "clip"
  /\ Delta_Time' = [Delta_Time EXCEPT ![r] =
                      [iPoint \in Points |->
                         IF GetDomain(iPoint) /\ ~tsCfg.implicit
                         THEN Pseudo_Clip(Delta_UnstTimeND[r], Delta_Time[r][iPoint])
                         ELSE Delta_Time[r][iPoint]]]
  /\ pc' = [pc EXCEPT ![r] = "done"]
  /\ UNCHANGED <<Max_Lambda_Inv, Max_Lambda_Visc, LocalCFL, Min_Delta_Time, Max_Delta_Time,
                 Global_Delta_Time, Global_Delta_UnstTimeND, Delta_UnstTimeND, tsCfg, callArgs,
                 nCalls, stepLog>>
  /\ LogCollectives

\* Every process has returned; the driver calls SetTime_Step for the next iteration.
Next_Iteration ==
  /\ \A r \in Ranks : pc[r] = "done"
  /\ nCalls < MaxTsCalls
  /\ nCalls' = nCalls + 1
  /\ callArgs' = [callArgs EXCEPT !.Iteration = @ + 1]
  /\ pc' = [r \in Ranks |-> "start"]
  /\ UNCHANGED <<Max_Lambda_Inv, Max_Lambda_Visc, Delta_Time, LocalCFL, Min_Delta_Time,
                 Max_Delta_Time, Global_Delta_Time, Global_Delta_UnstTimeND, Delta_UnstTimeND,
                 tsCfg, stepLog>>
  /\ LogCollectives

CFL_Init == R(6000)

TimeInit ==
  /\ \E tm \in TimeMarchings, imp \in BOOLEAN, en \in BOOLEAN, dyn \in BOOLEAN,
        ucfl \in {RZero, R(3)}, cl \in CommLevels, a \in VolVals, b \in VolVals :
       tsCfg = [Time_Marching |-> tm, implicit |-> imp, energy |-> en, dynamic_grid |-> dyn,
                Unst_CFL |-> ucfl, Comm_Level |-> cl,
                Max_DeltaTime |-> R(300000), Delta_UnstTime |-> R(6000),
                Volume |-> [r \in Ranks |-> [iPoint \in Points |->
                                                IF iPoint = r THEN a
                                                ELSE IF iPoint = 1 - r THEN b ELSE 0]]]
  /\ callArgs \in [iMesh : {0, 1}, Iteration : {0}]
  /\ nCalls = 1
  /\ pc = [r \in Ranks |-> "start"]
  /\ Max_Lambda_Inv = [r \in Ranks |-> ZeroPoints]
  /\ Max_Lambda_Visc = [r \in Ranks |-> ZeroPoints]
  /\ Delta_Time = [r \in Ranks |-> ZeroPoints]
  /\ LocalCFL = [r \in Ranks |-> [iPoint \in Points |-> CFL_Init]]
  /\ Min_Delta_Time = [r \in Ranks |-> RZero]
  /\ Max_Delta_Time = [r \in Ranks |-> RZero]
  /\ Global_Delta_Time = [r \in Ranks |-> RZero]
  /\ Global_Delta_UnstTimeND = [r \in Ranks |-> RZero]
  /\ Delta_UnstTimeND = [r \in Ranks |-> tsCfg.Delta_UnstTime]
  /\ stepLog = [r \in Ranks |-> ZeroPoints]
  /\ collLog = [r \in Ranks |-> <<>>]

TimeIdle ==
  /\ Max_Lambda_Inv = <<>>
  /\ Max_Lambda_Visc = <<>>
  /\ Delta_Time = <<>>
  /\ LocalCFL = <<>>
  /\ Min_Delta_Time = <<>>
  /\ Max_Delta_Time = <<>>
  /\ Global_Delta_Time = <<>>
  /\ Global_Delta_UnstTimeND = <<>>
  /\ Delta_UnstTimeND = <<>>
  /\ pc = <<>>
  /\ tsCfg = <<>>
  /\ callArgs = <<>>
  /\ nCalls = 0
  /\ stepLog = <<>>
  /\ collLog = <<>>

(***************************************************************************)
(* The halo exchanges at the end of the constructor (lines 434-449), for   *)
(* one process.  An exchange is named by its kind and, for the periodic    *)
(* ones, the index of the periodic pair.                                   *)
(***************************************************************************)
MaxMarker_Periodic == 6   \* periodic markers in the configuration

\* Mutant: both exchanges of a periodic pair are initiated before either is completed.
PeriodicBody_Overlapped ==
  << [call |-> "Initiate", commType |-> "PERIODIC_VOLUME"],
     [call |-> "Initiate", commType |-> "PERIODIC_NEIGHBORS"],
     [call |-> "Complete", commType |-> "PERIODIC_VOLUME"],
     [call |-> "Complete", commType |-> "PERIODIC_NEIGHBORS"] >>

\* Lines 435-438: the calls of the loop body, in order
PeriodicBody ==
  << [call |-> "Initiate", commType |-> "PERIODIC_VOLUME"],
     [call |-> "Complete", commType |-> "PERIODIC_VOLUME"],
     [call |-> "Initiate", commType |-> "PERIODIC_NEIGHBORS"],
     [call |-> "Complete", commType |-> "PERIODIC_NEIGHBORS"] >>

\* Line 434: config->GetnMarker_Periodic()/2, an integer division
nPeriodicPairs == ctorCfg.nMarker_Periodic \div 2

CommEvent(call, commType, val_periodic_index) ==
  [call |-> call, commType |-> commType, val_periodic_index |-> val_periodic_index]

\* After the last call of the body the loop counter is incremented (line 434).
BodyAdvance ==
  IF ctorStep = Len(PeriodicBody)
  THEN ctorStep' = 1 /\ iPeriodic' = iPeriodic + 1
  ELSE ctorStep' = ctorStep + 1 /\ UNCHANGED iPeriodic

\* Lines 435, 437: InitiatePeriodicComms(geometry, config, iPeriodic, commType)
InitiatePeriodicComms(commType) ==
  /\ ctorPc = "periodic"
  /\ iPeriodic <= nPeriodicPairs
  /\ PeriodicBody[ctorStep] = [call |-> "Initiate", commType |-> commType]
  /\ outstanding' = outstanding \cup {<<commType, iPeriodic>>}
  /\ commLog' = Append(commLog, CommEvent("Initiate", commType, iPeriodic))
  /\ BodyAdvance
  /\ UNCHANGED <<ctorPc, implicit_periodic, rotate_periodic, ctorCfg>>

\* Lines 436, 438: CompletePeriodicComms(geometry, config, iPeriodic, commType)
CompletePeriodicComms(commType) ==
  /\ ctorPc = "periodic"
  /\ iPeriodic <= nPeriodicPairs
  /\ PeriodicBody[ctorStep] = [call |-> "Complete", commType |-> commType]
  /\ outstanding' = outstanding \ {<<commType, iPeriodic>>}
  /\ commLog' = Append(commLog, CommEvent("Complete", commType, iPeriodic))
  /\ BodyAdvance
  /\ UNCHANGED <<ctorPc, implicit_periodic, rotate_periodic, ctorCfg>>

\* Lines 434, 440-441: the loop ends; SetImplicitPeriodic(euler_implicit) and,
\* on the finest mesh, SetRotatePeriodic(true).
SetPeriodicFlags ==
  /\ ctorPc = "periodic"
  /\ iPeriodic > nPeriodicPairs
  /\ implicit_periodic' = ctorCfg.euler_implicit
  /\ rotate_periodic' = IF ctorCfg.iMesh = MESH_0 THEN TRUE ELSE rotate_periodic
  /\ ctorPc' = "InitiateComms"
  /\ UNCHANGED <<iPeriodic, ctorStep, outstanding, commLog, ctorCfg>>

\* Line 445: InitiateComms(geometry, config, SOLUTION)
InitiateComms ==
  /\ ctorPc = "InitiateComms"
  /\ outstanding' = outstanding \cup {<<"SOLUTION", 0>>}
  /\ commLog' = Append(commLog, CommEvent("Initiate", "SOLUTION", 0))
  /\ ctorPc' = "CompleteComms"
  /\ UNCHANGED <<iPeriodic, ctorStep, implicit_periodic, rotate_periodic, ctorCfg>>

\* Line 446: CompleteComms(geometry, config, SOLUTION)
CompleteComms ==
  /\ ctorPc = "CompleteComms"
  /\ outstanding' = outstanding \ {<<"SOLUTION", 0>>}
  /\ commLog' = Append(commLog, CommEvent("Complete", "SOLUTION", 0))
  /\ ctorPc' = "done"
  /\ UNCHANGED <<iPeriodic, ctorStep, implicit_periodic, rotate_periodic, ctorCfg>>

\* The process enters line 434; the periodic flags hold their defaults.
CtorInit ==
  /\ ctorCfg \in [nMarker_Periodic : 0..MaxMarker_Periodic, iMesh : {0, 1},
                  euler_implicit : BOOLEAN]
  /\ ctorPc = "periodic"
  /\ iPeriodic = 1
  /\ ctorStep = 1
  /\ outstanding = {}
  /\ commLog = <<>>
  /\ implicit_periodic = FALSE
  /\ rotate_periodic = FALSE

CtorIdle ==
  /\ ctorCfg = <<>>
  /\ ctorPc = "none"
  /\ iPeriodic = 0
  /\ ctorStep = 0
  /\ outstanding = {}
  /\ commLog = <<>>
  /\ implicit_periodic = FALSE
  /\ rotate_periodic = FALSE

(***************************************************************************)
(* Preprocessing and SetPrimitive_Variables (lines 500-640) on every       *)
(* process: the count of non-physical points, the maxima of strain-rate    *)
(* and vorticity magnitude, the zeroing of residual and Jacobian, and the  *)
(* reductions of lines 578-595.  The configuration and the mesh level are  *)
(* those of tsCfg and callArgs.                                            *)
(***************************************************************************)
\* Lines 612-633: the loop of SetPrimitive_Variables over all points of
\* process r; P carries nonPhysicalPoints and the residual.
\* Mutant: the loops of Preprocessing stop at the last domain point.
nPoint_DomainOnly == Cardinality(DomainPoints)

\* The number of points of a process, halo points included
nPoint == Cardinality(Points)

RECURSIVE Primitive_Loop(_, _, _)
Primitive_Loop(P, r, iPoint) ==
  IF iPoint >= nPoint THEN P
  ELSE Primitive_Loop(
         [nonPhysicalPoints |-> IF ~preIn.physical[r][iPoint] THEN P.nonPhysicalPoints + 1
                                ELSE P.nonPhysicalPoints,
          res |-> IF ~preIn.Output THEN [P.res EXCEPT ![iPoint] = ZeroVec] ELSE P.res],
         r, iPoint + 1)
SetPrimitive_Variables(r) ==
  Primitive_Loop([nonPhysicalPoints |-> 0, res |-> RankLinSysRes[r]], r, 0)

\* Lines 558-568: the maxima over all points of process r; M carries
\* StrainMag_Max and Omega_Max.
RECURSIVE StrainMag_Loop(_, _, _)
StrainMag_Loop(M, r, iPoint) ==
  IF iPoint >= nPoint THEN M
  ELSE LET StrainMag == preIn.StrainMag[r][iPoint]
           Vorticity == preIn.Vorticity[r][iPoint]
           Omega == RSqrt(RAdd(RAdd(RMul(Vorticity[1], Vorticity[1]),
                                    RMul(Vorticity[2], Vorticity[2])),
                               RMul(Vorticity[3], Vorticity[3])))
       IN  StrainMag_Loop([strain |-> RMax(M.strain, StrainMag),
                           omega |-> RMax(M.omega, Omega)], r, iPoint + 1)

PreCollectivePcs == {"atErrorCounter", "atStrainMag", "atOmega"}
PreLogCollectives ==
  collLog' = [r \in Ranks |-> IF prePc'[r] # prePc[r] /\ prePc'[r] \in PreCollectivePcs
                              THEN Append(collLog[r], prePc'[r]) ELSE collLog[r]]

\* Line 576: where a process goes after the local part.
Pre_After_Local == IF tsCfg.Comm_Level = "COMM_FULL" THEN "atErrorCounter" ELSE "done"

\* Lines 511-574 on process r, continuing at position next.
Preprocessing_Body(r, next) ==
  /\ prePc[r] = "start"
  /\ \E P \in {SetPrimitive_Variables(r)} :
     \E M \in {StrainMag_Loop([strain |-> RZero, omega |-> RZero], r, 0)} :
       /\ ErrorCounter' = [ErrorCounter EXCEPT ![r] = P.nonPhysicalPoints]
       /\ RankLinSysRes' = [RankLinSysRes EXCEPT ![r] = P.res]
       /\ StrainMag_Max' = [StrainMag_Max EXCEPT ![r] = M.strain]
       /\ Omega_Max' = [Omega_Max EXCEPT ![r] = M.omega]
  /\ RankJacobian' = [RankJacobian EXCEPT ![r] =
                        IF tsCfg.implicit /\ ~preIn.Output THEN ZeroJac ELSE @]
  /\ prePc' = [prePc EXCEPT ![r] = next]
  /\ PreLogCollectives
  /\ UNCHANGED <<Nonphysical_Points, preIn>>

\* Mutant: a process that found no non-physical point skips the reductions.
Preprocessing_Local_SkipClean(r) ==
  Preprocessing_Body(r, IF SetPrimitive_Variables(r).nonPhysicalPoints = 0 THEN "done"
                        ELSE Pre_After_Local)

\* Mutant: the process goes on to the reductions with the Jacobian not
\* zeroed yet.
Preprocessing_Local_LateJacobian(r) ==
  /\ prePc[r] = "start"
  /\ \E P \in {SetPrimitive_Variables(r)} :
     \E M \in {StrainMag_Loop([strain |-> RZero, omega |-> RZero], r, 0)} :
       /\ ErrorCounter' = [ErrorCounter EXCEPT ![r] = P.nonPhysicalPoints]
       /\ RankLinSysRes' = [RankLinSysRes EXCEPT ![r] = P.res]
       /\ StrainMag_Max' = [StrainMag_Max EXCEPT ![r] = M.strain]
       /\ Omega_Max' = [Omega_Max EXCEPT ![r] = M.omega]
  /\ prePc' = [prePc EXCEPT ![r] = Pre_After_Local]
  /\ PreLogCollectives
  /\ UNCHANGED <<Nonphysical_Points, preIn, RankJacobian>>

Preprocessing_Local(r) == Preprocessing_Body(r, Pre_After_Local)

\* Mutant: the reduction returns the largest count instead of the sum.
RECURSIVE ReduceSum_Max(_, _)
ReduceSum_Max(buf, ranks) ==
  IF ranks = {} THEN 0
  ELSE LET r == CHOOSE x \in ranks : TRUE
           rest == ReduceSum_Max(buf, ranks \ {r})
       IN  IF buf[r] > rest THEN buf[r] ELSE rest

\* MPI_SUM over the processes' values
RECURSIVE ReduceSum(_, _)
ReduceSum(buf, ranks) ==
  IF ranks = {} THEN 0
  ELSE LET r == CHOOSE x \in ranks : TRUE
       IN  buf[r] + ReduceSum(buf, ranks \ {r})

\* Line 583: Allreduce of the error counter.
Allreduce_ErrorCounter ==
  /\ \A r \in Ranks : prePc[r] = "atErrorCounter"
  /\ ErrorCounter' = [r \in Ranks |-> ReduceSum(ErrorCounter, Ranks)]
  /\ prePc' = [r \in Ranks |-> "atStrainMag"]
  /\ PreLogCollectives
  /\ UNCHANGED <<StrainMag_Max, Omega_Max, Nonphysical_Points, RankLinSysRes,
                 RankJacobian, preIn>>

\* Line 584: Allreduce of the maximum strain-rate magnitude.
Allreduce_StrainMag ==
  /\ \A r \in Ranks : prePc[r] = "atStrainMag"
  /\ StrainMag_Max' = AllReduceMax(StrainMag_Max)
  /\ prePc' = [r \in Ranks |-> "atOmega"]
  /\ PreLogCollectives
  /\ UNCHANGED <<ErrorCounter, Omega_Max, Nonphysical_Points, RankLinSysRes,
                 RankJacobian, preIn>>

\* Line 585: Allreduce of the maximum vorticity magnitude.
Allreduce_Omega ==
  /\ \A r \in Ranks : prePc[r] = "atOmega"
  /\ Omega_Max' = AllReduceMax(Omega_Max)
  /\ prePc' = [r \in Ranks |-> "record"]
  /\ PreLogCollectives
  /\ UNCHANGED <<ErrorCounter, StrainMag_Max, Nonphysical_Points, RankLinSysRes,
                 RankJacobian, preIn>>

\* Lines 588-589 on process r: config->SetNonphysical_Points(ErrorCounter).
SetNonphysical_Points(r) ==
  /\ prePc[r] = "record"
  /\ Nonphysical_Points' = [Nonphysical_Points EXCEPT ![r] =
                              IF callArgs.iMesh = MESH_0 THEN ErrorCounter[r] ELSE @]
  /\ prePc' = [prePc EXCEPT ![r] = "done"]
  /\ PreLogCollectives
  /\ UNCHANGED <<ErrorCounter, StrainMag_Max, Omega_Max, RankLinSysRes, RankJacobian, preIn>>

\* The flow state of the processes: which points reconstruct to a physical
\* state, and strain-rate magnitude and vorticity of every point.
StrainMagIn == [r \in Ranks |-> [iPoint \in Points |-> R(1 + 2 * r + iPoint)]]
VorticityIn == [r \in Ranks |-> [iPoint \in Points |-> <<RZero, RZero, R(4 - 3 * r + iPoint)>>]]
DirtyRes == [iPoint \in Points |-> [iVar \in Vars |-> R(1 + iPoint)]]
DirtyJac == [iPoint \in Points |-> [jPoint \in Points |->
              [iVar \in Vars |-> [jVar \in Vars |-> R(1)]]]]

PreInit ==
  /\ \E out \in BOOLEAN, np \in [Ranks -> {{}, {1}, {0, 2}}] :
       preIn = [Output |-> out,
                physical |-> [r \in Ranks |-> [iPoint \in Points |-> iPoint \notin np[r]]],
                StrainMag |-> StrainMagIn, Vorticity |-> VorticityIn]
  /\ prePc = [r \in Ranks |-> "start"]
  /\ ErrorCounter = [r \in Ranks |-> 0]
  /\ StrainMag_Max = [r \in Ranks |-> RZero]
  /\ Omega_Max = [r \in Ranks |-> RZero]
  /\ Nonphysical_Points = [r \in Ranks |-> 0]
  /\ RankLinSysRes = [r \in Ranks |-> DirtyRes]
  /\ RankJacobian = [r \in Ranks |-> DirtyJac]

PreIdle ==
  /\ preIn = <<>>
  /\ prePc = <<>>
  /\ ErrorCounter = <<>>
  /\ StrainMag_Max = <<>>
  /\ Omega_Max = <<>>
  /\ Nonphysical_Points = <<>>
  /\ RankLinSysRes = <<>>
  /\ RankJacobian = <<>>

(***************************************************************************)
(* Specifications                                                          *)
(***************************************************************************)
QuadInit ==
  /\ \E pts \in QuadArgs, val_nDim \in QuadDims : CQuadrilateral(pts, val_nDim)
  /\ Nodes0 = Nodes
  /\ nFlips = 0
  /\ AsmIdle
  /\ TimeIdle
  /\ CtorIdle
  /\ PreIdle
QuadNext == Change_Orientation /\ UNCHANGED <<asmVars, timeVars, ctorVars, preVars>>
SpecQuad == QuadInit /\ [][QuadNext]_vars

AsmSpecInit == QuadIdle /\ AsmInit /\ TimeIdle /\ CtorIdle /\ PreIdle
AsmNext ==
  \/ Viscous_Residual /\ UNCHANGED <<quadVars, timeVars, ctorVars, preVars>>
  \/ \E val_marker \in WallMarkers :
       BC_HeatFlux_Wall(val_marker) /\ UNCHANGED <<quadVars, timeVars, ctorVars, preVars>>
  \/ \E val_marker \in WallMarkers :
       BC_Isothermal_Wall(val_marker) /\ UNCHANGED <<quadVars, timeVars, ctorVars, preVars>>
  \/ \E val_marker \in WallMarkers :
       BC_ConjugateHeat_Interface(val_marker) /\ UNCHANGED <<quadVars, timeVars, ctorVars, preVars>>
SpecAsm == AsmSpecInit /\ [][AsmNext]_vars

\* The assembly procedures together with Preprocessing.
SchemeNext ==
  \/ \E Output \in BOOLEAN :
       Preprocessing(Output) /\ UNCHANGED <<quadVars, timeVars, ctorVars, preVars>>
  \/ AsmNext
SpecScheme == AsmSpecInit /\ [][SchemeNext]_vars

ChtSpecInit == QuadIdle /\ ChtInit /\ TimeIdle /\ CtorIdle /\ PreIdle
ChtNext ==
  \/ \E val_marker \in WallMarkers, val_vertex \in 1..Len(Vertex[0]),
        pos_var \in ConjugatePositions, relaxation_factor \in RelaxationFactors,
        val_var \in ConjugateVals :
       /\ val_vertex <= Len(Vertex[val_marker])
       /\ SetConjugateHeatVariable(val_marker, val_vertex, pos_var, relaxation_factor, val_var)
       /\ UNCHANGED <<quadVars, timeVars, ctorVars, preVars>>
  \/ Viscous_Residual /\ UNCHANGED <<quadVars, timeVars, ctorVars, preVars>>
  \/ \E val_marker \in WallMarkers :
       BC_ConjugateHeat_Interface(val_marker) /\ UNCHANGED <<quadVars, timeVars, ctorVars, preVars>>
SpecCht == ChtSpecInit /\ [][ChtNext]_vars

TimeSpecInit == QuadIdle /\ AsmIdle /\ TimeInit /\ CtorIdle /\ PreIdle
TimeNext ==
  \/ \E r \in Ranks : Accumulate(r) /\ UNCHANGED <<quadVars, asmVars, ctorVars, preVars>>
  \/ Reduce_MinMax /\ UNCHANGED <<quadVars, asmVars, ctorVars, preVars>>
  \/ Reduce_Global /\ UNCHANGED <<quadVars, asmVars, ctorVars, preVars>>
  \/ \E r \in Ranks : TimeStepping_Assign(r) /\ UNCHANGED <<quadVars, asmVars, ctorVars, preVars>>
  \/ \E r \in Ranks : Unst_LocalMin(r) /\ UNCHANGED <<quadVars, asmVars, ctorVars, preVars>>
  \/ Reduce_Unst /\ UNCHANGED <<quadVars, asmVars, ctorVars, preVars>>
  \/ \E r \in Ranks : DualTime_Clip(r) /\ UNCHANGED <<quadVars, asmVars, ctorVars, preVars>>
  \/ Next_Iteration /\ UNCHANGED <<quadVars, asmVars, ctorVars, preVars>>
SpecTime == TimeSpecInit /\ [][TimeNext]_vars

CtorSpecInit == QuadIdle /\ AsmIdle /\ TimeIdle /\ CtorInit /\ PreIdle
CtorNext ==
  \/ \E commType \in {"PERIODIC_VOLUME", "PERIODIC_NEIGHBORS"} :
       InitiatePeriodicComms(commType) /\ UNCHANGED <<quadVars, asmVars, timeVars, preVars>>
  \/ \E commType \in {"PERIODIC_VOLUME", "PERIODIC_NEIGHBORS"} :
       CompletePeriodicComms(commType) /\ UNCHANGED <<quadVars, asmVars, timeVars, preVars>>
  \/ SetPeriodicFlags /\ UNCHANGED <<quadVars, asmVars, timeVars, preVars>>
  \/ InitiateComms /\ UNCHANGED <<quadVars, asmVars, timeVars, preVars>>
  \/ CompleteComms /\ UNCHANGED <<quadVars, asmVars, timeVars, preVars>>
SpecCtor == CtorSpecInit /\ [][CtorNext]_vars

\* One solver iteration on every process: Preprocessing, then SetTime_Step,
\* for the configurations without energy equation and grid movement.
IterSpecInit ==
  /\ QuadIdle /\ AsmIdle /\ CtorIdle
  /\ TimeInit
  /\ ~tsCfg.energy /\ ~tsCfg.dynamic_grid
  /\ tsCfg.Volume[0][0] \in {0, 2} /\ tsCfg.Volume[0][1] \in {2, 20}
  /\ PreInit
IterNext ==
  \/ \E r \in Ranks : Preprocessing_Local(r) /\ UNCHANGED <<quadVars, asmVars, timeState, ctorVars>>
  \/ Allreduce_ErrorCounter /\ UNCHANGED <<quadVars, asmVars, timeState, ctorVars>>
  \/ Allreduce_StrainMag /\ UNCHANGED <<quadVars, asmVars, timeState, ctorVars>>
  \/ Allreduce_Omega /\ UNCHANGED <<quadVars, asmVars, timeState, ctorVars>>
  \/ \E r \in Ranks : SetNonphysical_Points(r) /\ UNCHANGED <<quadVars, asmVars, timeState, ctorVars>>
  \/ \E r \in Ranks : prePc[r] = "done" /\ Accumulate(r)
                       /\ UNCHANGED <<quadVars, asmVars, ctorVars, preVars>>
  \/ Reduce_MinMax /\ UNCHANGED <<quadVars, asmVars, ctorVars, preVars>>
  \/ Reduce_Global /\ UNCHANGED <<quadVars, asmVars, ctorVars, preVars>>
  \/ \E r \in Ranks : TimeStepping_Assign(r) /\ UNCHANGED <<quadVars, asmVars, ctorVars, preVars>>
  \/ \E r \in Ranks : Unst_LocalMin(r) /\ UNCHANGED <<quadVars, asmVars, ctorVars, preVars>>
  \/ Reduce_Unst /\ UNCHANGED <<quadVars, asmVars, ctorVars, preVars>>
  \/ \E r \in Ranks : DualTime_Clip(r) /\ UNCHANGED <<quadVars, asmVars, ctorVars, preVars>>
SpecIter == IterSpecInit /\ [][IterNext]_vars

(***************************************************************************)
(* Properties of CQuadrilateral (under SpecQuad)                           *)
(***************************************************************************)

\* C1: one call of Change_Orientation on an element built with nodes
\* [n0,n1,n2,n3] exchanges slots 1 and 3 and leaves slots 0 and 2 as they
\* were; nodes [0,1,2,3] become [0,3,2,1].
C1_OneCallSwapsSlots1And3 ==
  nFlips = 1 =>
    /\ Nodes[0] = Nodes0[0]
    /\ Nodes[1] = Nodes0[3]
    /\ Nodes[2] = Nodes0[2]
    /\ Nodes[3] = Nodes0[1]
    /\ (Nodes0 = [i \in 0..3 |-> i] => Nodes = [i \in 0..3 |-> (4 - i) % 4])

C1_Witness ==
  /\ nFlips = 1
  /\ Nodes0 = [i \in 0..3 |-> i]
  /\ Nodes[1] = 3
  /\ Nodes[3] = 1

\* C2: Change_Orientation is an involution: after k calls the ordering is the
\* original one when k is even and the once-flipped one when k is odd.
C2_Involution ==
  /\ (nFlips % 2 = 0 => Nodes = Nodes0)
  /\ (nFlips % 2 = 1 => Nodes = [i \in 0..3 |-> Nodes0[(4 - i) % 4]])

C2_Witness ==
  /\ nFlips = 2
  /\ Nodes = Nodes0
  /\ Nodes0[1] # Nodes0[3]

\* C3: Change_Orientation keeps the multiset of the four node indices and
\* touches nothing else: the face-centroid storage is still the nFaces x nDim
\* array of zeros the constructor allocated, and nDim is unchanged.
C3_NodeSetAndFrame ==
  /\ [](/\ \A n \in 0..MaxNode :
            Cardinality({i \in 0..3 : Nodes[i] = n}) =
              Cardinality({i \in 0..3 : Nodes0[i] = n})
        /\ DOMAIN Coord_FaceElems_CG = 0..(nFaces - 1)
        /\ \A iFace \in 0..(nFaces - 1) :
             Coord_FaceElems_CG[iFace] = [iDim \in 0..(elemDim - 1) |-> 0])
  /\ [][nFlips' # nFlips => UNCHANGED <<Coord_FaceElems_CG, elemDim>>]_vars

C3_Witness ==
  /\ nFlips = 1
  /\ Nodes # Nodes0
  /\ elemDim = 3
  /\ DOMAIN Coord_FaceElems_CG = 0..3

(***************************************************************************)
(* Properties of the assembly procedures (under SpecAsm)                   *)
(***************************************************************************)
RECURSIVE SumOver(_, _, _)
SumOver(res, pts, iVar) ==
  IF pts = {} THEN RZero
  ELSE LET p == CHOOSE x \in pts : TRUE
       IN  RAdd(res[p][iVar], SumOver(res, pts \ {p}, iVar))

IsCall(op) == hist'.op = op /\ hist'.calls = hist.calls + 1

\* C4: in one Viscous_Residual pass the functor is evaluated once for every
\* edge and the sum over all points of the residual change is zero in every
\* component.
C4_Conservation ==
  [][IsCall("Viscous_Residual") =>
       /\ \A iEdge \in 1..nEdge : hist'.nEval[iEdge] = 1
       /\ \A iVar \in Vars :
            SumOver(LinSysRes', Points, iVar) = SumOver(LinSysRes, Points, iVar)]_vars

C4_Witness ==
  /\ hist.op = "Viscous_Residual"
  /\ hist.calls = 1
  /\ LinSysRes[0] # ZeroVec
  /\ LinSysRes[2] # ZeroVec
  /\ \A iVar \in Vars : SumOver(LinSysRes, Points, iVar) = RZero

AveragedKinds == {"AVERAGED_TEMPERATURE_NEUMANN_HEATFLUX", "AVERAGED_TEMPERATURE_ROBIN_HEATFLUX"}
DirectKinds == {"DIRECT_TEMPERATURE_NEUMANN_HEATFLUX", "DIRECT_TEMPERATURE_ROBIN_HEATFLUX"}
WallProcedures == {"BC_HeatFlux_Wall", "BC_Isothermal_Wall", "BC_ConjugateHeat_Interface"}
IdentityRow(i) == [c \in 0..(Cardinality(Points) * nVar - 1) |-> IF c = i THEN R(1) ELSE RZero]

\* C5: after a wall procedure has returned, every domain vertex point of the
\* marker has the wall velocity as its old velocity (zero, or the grid
\* velocity on a dynamic grid), zero velocity entries in its residual block
\* and, with an implicit scheme, identity rows as its velocity rows.
C5_StrongVelocityDirichlet ==
  (hist.op \in WallProcedures /\ ~fatal) =>
    \A iVertex \in 1..Len(Vertex[hist.marker]) :
      LET iPoint == Vertex[hist.marker][iVertex].Node
      IN  GetDomain(iPoint) =>
            \A iDim \in 1..nDim :
              /\ Solution_Old[iPoint][iDim] =
                   IF asmCfg.dynamic_grid THEN GridVel[iPoint][iDim] ELSE RZero
              /\ LinSysRes[iPoint][iDim] = RZero
              /\ asmCfg.implicit =>
                   JacRow(Jacobian, iPoint * nVar + iDim) = IdentityRow(iPoint * nVar + iDim)

\* a wall procedure returned after a viscous pass had filled the rows
C5_Witness ==
  /\ hist.op \in WallProcedures
  /\ hist.calls = 2
  /\ ~fatal
  /\ asmCfg.implicit
  /\ asmCfg.dynamic_grid
  /\ Jacobian[1][0] # ZeroBlock
  /\ JacRow(Jacobian, 1) = IdentityRow(1)
  /\ Solution_Old[0][1] = GridVel[0][1]

\* The points that are domain vertices of a marker.
DomainVertexPoints(val_marker) ==
  {Vertex[val_marker][iVertex].Node : iVertex \in 1..Len(Vertex[val_marker])} \cap DomainPoints
\* The vertex of a marker that lies on a point.
VertexAt(val_marker, iPoint) ==
  CHOOSE iVertex \in 1..Len(Vertex[val_marker]) : Vertex[val_marker][iVertex].Node = iPoint

\* C11: a BC_Isothermal_Wall call with the energy equation active takes, for
\* every domain vertex, the gradient (Twall - T_neighbor)/dist against the
\* cached normal neighbour and subtracts thermal_conductivity*dTdn*Area from
\* the energy entry of the point's residual; the pressure entry and the
\* blocks of all other points keep their values; for Twall = 300,
\* T_neighbor = 350 and dist = 0.01 the gradient is -5000.
C11_IsothermalEnergyResidual ==
  [][(IsCall("BC_Isothermal_Wall") /\ ~fatal' /\ asmCfg.energy) =>
       /\ \A iPoint \in DomainVertexPoints(hist'.marker) :
            LET v == Vertex[hist'.marker][VertexAt(hist'.marker, iPoint)]
                Twall == RDiv(Isothermal_Temperature, Temperature_Ref)
                Tneighbor == Temperature[v.Normal_Neighbor]
                dist == Dist(iPoint, v.Normal_Neighbor)
                dTdn == RDiv(RSub(Twall, Tneighbor), dist)
                Area == R(NormOf(v.Normal))
                term == RMul(RMul(ThermalConductivity[iPoint], dTdn), Area)
            IN  /\ LinSysRes'[iPoint][nDim + 1] = RSub(LinSysRes[iPoint][nDim + 1], term)
                /\ LinSysRes'[iPoint][0] = LinSysRes[iPoint][0]
                /\ Res_Visc'[nDim + 1] = term
                /\ (Twall = R(300) /\ Tneighbor = R(350) /\ dist = <<1, 100>>) =>
                     /\ dTdn = R(-5000)
                     /\ Res_Visc' = [ZeroVec EXCEPT ![nDim + 1] =
                                       RMul(RMul(ThermalConductivity[iPoint], R(-5000)), Area)]
       /\ \A iPoint \in Points \ DomainVertexPoints(hist'.marker) :
            LinSysRes'[iPoint] = LinSysRes[iPoint]]_vars

\* An isothermal call with the energy equation has returned after a viscous
\* pass: the wall term of the example (gradient -5000) is in the scratch
\* vector, the pressure residual of the pass is still there.
C11_Witness ==
  /\ hist.op = "BC_Isothermal_Wall"
  /\ hist.calls = 2
  /\ ~fatal
  /\ asmCfg.energy
  /\ RDiv(Isothermal_Temperature, Temperature_Ref) = R(300)
  /\ Temperature[Vertex[hist.marker][1].Normal_Neighbor] = R(350)
  /\ Res_Visc[nDim + 1] = RMul(RMul(ThermalConductivity[0], R(-5000)), R(2))
  /\ LinSysRes[0][0] # RZero
  /\ LinSysRes[0][nDim + 1] # RZero

\* The scalar rows of the matrix, and the velocity rows of the domain
\* vertices of a marker.
AllRows == 0..(Cardinality(Points) * nVar - 1)
WallVelocityRows(val_marker) ==
  {iPoint * nVar + iDim : iPoint \in DomainVertexPoints(val_marker), iDim \in 1..nDim}
\* What a returned BC_HeatFlux_Wall call leaves alone: the pressure entries,
\* the blocks of the other points, and every Jacobian row except the
\* velocity rows of the domain vertices (which an implicit scheme deletes).
HeatFlux_Frame ==
  /\ \A iPoint \in DomainVertexPoints(hist'.marker) : LinSysRes'[iPoint][0] = LinSysRes[iPoint][0]
  /\ \A iPoint \in Points \ DomainVertexPoints(hist'.marker) :
       LinSysRes'[iPoint] = LinSysRes[iPoint]
  /\ \A i \in AllRows \ WallVelocityRows(hist'.marker) :
       JacRow(Jacobian', i) = JacRow(Jacobian, i)
  /\ \A i \in WallVelocityRows(hist'.marker) :
       JacRow(Jacobian', i) = IF asmCfg.implicit THEN IdentityRow(i) ELSE JacRow(Jacobian, i)
\* flux * Area of a vertex: the prescribed wall heat flux over the reference
\* heat flux, times the norm of the vertex normal.
FluxArea(val_marker, iPoint) ==
  RMul(RDiv(Wall_HeatFlux, Heat_Flux_Ref),
       R(NormOf(Vertex[val_marker][VertexAt(val_marker, iPoint)].Normal)))

\* C12 as stated: a BC_HeatFlux_Wall call with the energy equation active
\* adds flux*Area to the energy entry of the residual of every domain vertex,
\* touches no other non-velocity residual entry and changes the Jacobian
\* only by deleting the velocity rows.
C12_HeatFluxAdded ==
  [][(IsCall("BC_HeatFlux_Wall") /\ asmCfg.energy) =>
       /\ \A iPoint \in DomainVertexPoints(hist'.marker) :
            LinSysRes'[iPoint][nDim + 1] =
              RAdd(LinSysRes[iPoint][nDim + 1], FluxArea(hist'.marker, iPoint))
       /\ HeatFlux_Frame]_vars

\* C12: a BC_HeatFlux_Wall call with the energy equation active subtracts
\* flux*Area from the energy entry of the residual of every domain vertex,
\* touches no other non-velocity residual entry and changes the Jacobian
\* only by deleting the velocity rows.
C12_HeatFluxSubtracted ==
  [][(IsCall("BC_HeatFlux_Wall") /\ asmCfg.energy) =>
       /\ \A iPoint \in DomainVertexPoints(hist'.marker) :
            LinSysRes'[iPoint][nDim + 1] =
              RSub(LinSysRes[iPoint][nDim + 1], FluxArea(hist'.marker, iPoint))
       /\ HeatFlux_Frame]_vars

\* An implicit heat-flux call with the energy equation has returned after a
\* viscous pass; the energy row of the wall point still holds the pass's
\* entries.
C12_Witness ==
  /\ hist.op = "BC_HeatFlux_Wall"
  /\ hist.calls = 2
  /\ asmCfg.energy
  /\ asmCfg.implicit
  /\ Res_Visc[nDim + 1] = R(6)
  /\ LinSysRes[0][0] # RZero
  /\ JacRow(Jacobian, nDim + 1) # [c \in AllRows |-> RZero]
  /\ JacRow(Jacobian, 1) = IdentityRow(1)

(***************************************************************************)
(* Error handling of the wall procedures (under SpecAsm)                   *)
(***************************************************************************)

\* C16: a call of any of the three wall procedures with a wall-function
\* treatment other than "no wall function" raises the fatal error before any
\* residual, solution or Jacobian entry is modified.
C16_WallFunctionFatal ==
  [][((\E op \in WallProcedures : IsCall(op)) /\ asmCfg.Wall_Function # "NO_WALL_FUNCTION") =>
       /\ fatal'
       /\ LinSysRes' = LinSysRes
       /\ Solution_Old' = Solution_Old
       /\ Jacobian' = Jacobian]_vars

\* The heat-flux wall has returned without the error under a wall function,
\* with the wall velocity imposed on the old solution.
C16_Witness ==
  /\ hist.op = "BC_HeatFlux_Wall" /\ hist.calls = 1
  /\ asmCfg.Wall_Function = "STANDARD_WALL_FUNCTION"
  /\ ~fatal
  /\ \A iPoint \in DomainVertexPoints(hist.marker) : Solution_Old[iPoint][1] = RZero

\* C17: a BC_ConjugateHeat_Interface call with a coupling kind that is none
\* of the four recognized ones ends in the fatal error state, in every
\* configuration.
C17_UnknownKindFatal ==
  [][(IsCall("BC_ConjugateHeat_Interface")
      /\ asmCfg.Kind_CHT_Coupling \notin AveragedKinds \cup DirectKinds) => fatal']_vars

\* With the energy equation off the call has returned for an unknown kind
\* without the error, the marker processed to completion.
C17_Witness ==
  /\ hist.op = "BC_ConjugateHeat_Interface" /\ hist.calls = 1
  /\ asmCfg.Kind_CHT_Coupling = "OTHER_CHT_COUPLING"
  /\ asmCfg.Wall_Function = "NO_WALL_FUNCTION"
  /\ ~asmCfg.energy
  /\ ~fatal
  /\ \A iPoint \in DomainVertexPoints(hist.marker) : Solution_Old[iPoint][1] = RZero

(***************************************************************************)
(* The energy equation at the three wall kinds (under SpecAsm)             *)
(***************************************************************************)
EnergyRows == {iPoint * nVar + nDim + 1 : iPoint \in Points}
\* The energy row of iPoint after the call differs from the one before only
\* in the energy-energy entry of the diagonal block, by the scratch entry.
OnlyDiagonalTermSubtracted(iPoint) ==
  LET i == iPoint * nVar + nDim + 1
  IN  \A c \in AllRows :
        JacRow(Jacobian', i)[c] =
          IF c = i THEN RSub(JacRow(Jacobian, i)[c], Jacobian_i'[nDim + 1][nDim + 1])
          ELSE JacRow(Jacobian, i)[c]

\* C25: the heat-flux and the isothermal wall never delete the energy row of
\* the Jacobian nor zero the energy residual entry (the isothermal wall only
\* subtracts one term from the energy-energy entry of the diagonal block when
\* implicit); the conjugate-heat interface deletes the energy row; with the
\* energy equation inactive none of the three changes the energy residual
\* entry, the old-solution energy entry or the energy row of any point.
C25_EnergyRowPerKind ==
  [][/\ (IsCall("BC_HeatFlux_Wall") /\ ~fatal') =>
          /\ \A i \in EnergyRows : JacRow(Jacobian', i) = JacRow(Jacobian, i)
          /\ asmCfg.energy =>
               \A iPoint \in DomainVertexPoints(hist'.marker) :
                 LinSysRes'[iPoint][nDim + 1] =
                   RSub(LinSysRes[iPoint][nDim + 1], Res_Visc'[nDim + 1])
     /\ (IsCall("BC_Isothermal_Wall") /\ ~fatal') =>
          /\ \A iPoint \in Points :
               IF asmCfg.implicit /\ asmCfg.energy /\ iPoint \in DomainVertexPoints(hist'.marker)
               THEN OnlyDiagonalTermSubtracted(iPoint)
               ELSE JacRow(Jacobian', iPoint * nVar + nDim + 1) =
                      JacRow(Jacobian, iPoint * nVar + nDim + 1)
          /\ asmCfg.energy =>
               \A iPoint \in DomainVertexPoints(hist'.marker) :
                 LinSysRes'[iPoint][nDim + 1] =
                   RSub(LinSysRes[iPoint][nDim + 1], Res_Visc'[nDim + 1])
     /\ (IsCall("BC_ConjugateHeat_Interface") /\ ~fatal' /\ asmCfg.energy /\ asmCfg.implicit) =>
          \A iPoint \in DomainVertexPoints(hist'.marker) :
            JacRow(Jacobian', iPoint * nVar + nDim + 1) = IdentityRow(iPoint * nVar + nDim + 1)
     /\ ((\E op \in WallProcedures : IsCall(op)) /\ ~asmCfg.energy) =>
          \A iPoint \in Points :
            /\ LinSysRes'[iPoint][nDim + 1] = LinSysRes[iPoint][nDim + 1]
            /\ Solution_Old'[iPoint][nDim + 1] = Solution_Old[iPoint][nDim + 1]
            /\ JacRow(Jacobian', iPoint * nVar + nDim + 1) =
                 JacRow(Jacobian, iPoint * nVar + nDim + 1)]_vars

\* An implicit isothermal call with energy has returned after a viscous
\* pass: the energy row of the wall point still holds the pass's entries,
\* the scratch block holds the term subtracted from the diagonal, and the
\* energy residual entry is not zero.
C25_Witness ==
  /\ hist.op = "BC_Isothermal_Wall" /\ hist.calls = 2 /\ ~fatal
  /\ asmCfg.implicit /\ asmCfg.energy
  /\ Jacobian_i[nDim + 1][nDim + 1] # RZero
  /\ JacRow(Jacobian, nDim + 1) # IdentityRow(nDim + 1)
  /\ \E c \in AllRows : c # nDim + 1 /\ JacRow(Jacobian, nDim + 1)[c] # RZero
  /\ JacRow(Jacobian, 1) = IdentityRow(1)
  /\ LinSysRes[0][nDim + 1] # RZero

(***************************************************************************)
(* The scheme and the Jacobian (under SpecScheme)                          *)
(***************************************************************************)
AssemblyProcedures == WallProcedures \cup {"Preprocessing", "Viscous_Residual"}
\* The residual after a viscous pass with the fluxes fl, from the residual
\* before it.
RECURSIVE FluxInto(_, _, _, _)
FluxInto(fl, iPoint, iVar, iEdge) ==
  IF iEdge > nEdge THEN RZero
  ELSE RAdd(IF Edges[iEdge].n1 = iPoint THEN fl[iEdge].residual[iVar]
            ELSE IF Edges[iEdge].n0 = iPoint THEN RSub(RZero, fl[iEdge].residual[iVar])
            ELSE RZero,
            FluxInto(fl, iPoint, iVar, iEdge + 1))
ViscousResidualFrom(fl) ==
  [iPoint \in Points |-> [iVar \in Vars |->
     RAdd(LinSysRes[iPoint][iVar], FluxInto(fl, iPoint, iVar, 1))]]
\* The term the isothermal wall subtracts from the energy residual.
IsothermalTerm(val_marker, iPoint) ==
  LET v == Vertex[val_marker][VertexAt(val_marker, iPoint)]
      dTdn == RDiv(RSub(RDiv(Isothermal_Temperature, Temperature_Ref),
                        Temperature[v.Normal_Neighbor]),
                   Dist(iPoint, v.Normal_Neighbor))
  IN  RMul(RMul(ThermalConductivity[iPoint], dTdn), R(NormOf(v.Normal)))
\* The residual after a wall procedure, from the residual before it; the
\* scheme is not consulted.
WallResidualFrom(op, val_marker) ==
  [iPoint \in Points |-> [iVar \in Vars |->
     IF iPoint \notin DomainVertexPoints(val_marker) \/ iVar = 0
     THEN LinSysRes[iPoint][iVar]
     ELSE IF iVar \in 1..nDim THEN RZero
     ELSE IF ~asmCfg.energy THEN LinSysRes[iPoint][iVar]
     ELSE IF op = "BC_HeatFlux_Wall"
          THEN RSub(LinSysRes[iPoint][iVar], FluxArea(val_marker, iPoint))
     ELSE IF op = "BC_Isothermal_Wall"
          THEN RSub(LinSysRes[iPoint][iVar], IsothermalTerm(val_marker, iPoint))
     ELSE RZero]]

\* C26: with a scheme that is not implicit no call of Preprocessing,
\* Viscous_Residual, BC_HeatFlux_Wall, BC_Isothermal_Wall or
\* BC_ConjugateHeat_Interface changes any Jacobian entry or the Jacobian
\* scratch block, and the residual every call leaves is the same function of
\* the residual before it whether the scheme is implicit or not.
C26_ExplicitLeavesJacobian ==
  [][(\E op \in AssemblyProcedures : IsCall(op)) =>
       /\ ~asmCfg.implicit => (Jacobian' = Jacobian /\ Jacobian_i' = Jacobian_i)
       /\ IsCall("Preprocessing") => LinSysRes' \in {LinSysRes, ZeroRes}
       /\ IsCall("Viscous_Residual") =>
            \E fl \in FluxPasses : LinSysRes' = ViscousResidualFrom(fl)
       /\ \A op \in WallProcedures :
            (IsCall(op) /\ ~fatal') => LinSysRes' = WallResidualFrom(op, hist'.marker)]_vars

\* With an explicit scheme a wall procedure has returned after a viscous
\* pass: the residual holds the contributions of both and the Jacobian and
\* its scratch block are as constructed.
C26_Witness ==
  /\ ~asmCfg.implicit /\ asmCfg.energy /\ ~fatal
  /\ hist.calls = 2 /\ hist.op \in {"BC_HeatFlux_Wall", "BC_Isothermal_Wall"}
  /\ LinSysRes[0][0] # RZero
  /\ LinSysRes[0][1] = RZero
  /\ LinSysRes[0][nDim + 1] # RZero
  /\ LinSysRes[1] # ZeroVec
  /\ Jacobian = ZeroJac /\ Jacobian_i = ZeroBlock

(***************************************************************************)
(* Ownership of the entries written (under SpecAsm)                        *)
(***************************************************************************)
HaloPoints == Points \ DomainPoints
HaloRows == {iPoint * nVar + iVar : iPoint \in HaloPoints, iVar \in Vars}
\* A call leaves the residual blocks and the Jacobian rows of the halo points
\* as they were.
HaloUntouched ==
  /\ \A iPoint \in HaloPoints : LinSysRes'[iPoint] = LinSysRes[iPoint]
  /\ \A i \in HaloRows : JacRow(Jacobian', i) = JacRow(Jacobian, i)

\* C20: Viscous_Residual and the three wall procedures modify residual blocks
\* and Jacobian rows only for domain points; the entries of a halo point are
\* never written.
C20_OnlyOwnedWritten ==
  [][(\E op \in WallProcedures \cup {"Viscous_Residual"} : IsCall(op)) => HaloUntouched]_vars

\* The viscous pass has returned with a nonzero residual block on the halo
\* point, which was zero before.
C20_Witness ==
  /\ hist.op = "Viscous_Residual" /\ hist.calls = 1
  /\ \E iPoint \in HaloPoints : LinSysRes[iPoint] # ZeroVec

(***************************************************************************)
(* Properties of the conjugate-heat interface (under SpecCht)              *)
(***************************************************************************)
\* A BC_ConjugateHeat_Interface call has returned.
ChtReturned == hist.op = "BC_ConjugateHeat_Interface" /\ ~fatal
\* The quantities of the domain vertex of marker val_marker that lies on
\* iPoint: near-wall and conjugate temperature, local and conjugate factor,
\* and the temperature the call left in the old solution.
NearWallT(val_marker, iPoint) ==
  Temperature[Vertex[val_marker][VertexAt(val_marker, iPoint)].Normal_Neighbor]
ConjugateT(val_marker, iPoint) ==
  RDiv(HeatConjugateVar[val_marker][VertexAt(val_marker, iPoint)][0], Temperature_Ref)
LocalFactor(val_marker, iPoint) ==
  RDiv(RMul(ThermalConductivity[iPoint], asmCfg.Viscosity_Ref),
       Dist(iPoint, Vertex[val_marker][VertexAt(val_marker, iPoint)].Normal_Neighbor))
ConjugateFactor(val_marker, iPoint) ==
  HeatConjugateVar[val_marker][VertexAt(val_marker, iPoint)][2]
ImposedT(iPoint) == Solution_Old[iPoint][nDim + 1]

\* C13: for the two averaged-temperature kinds, when the local factor
\* k*mu_ref/dist equals the conjugate factor (conjugate variable 2) and both
\* are nonzero, the wall temperature imposed by BC_ConjugateHeat_Interface is
\* the arithmetic mean of the near-wall and the conjugate temperature.
C13_EqualFactorsGiveMean ==
  (ChtReturned /\ asmCfg.energy /\ asmCfg.Kind_CHT_Coupling \in AveragedKinds) =>
    \A iPoint \in DomainVertexPoints(hist.marker) :
      (/\ LocalFactor(hist.marker, iPoint) = ConjugateFactor(hist.marker, iPoint)
       /\ LocalFactor(hist.marker, iPoint) # RZero) =>
        ImposedT(iPoint) =
          RDiv(RAdd(NearWallT(hist.marker, iPoint), ConjugateT(hist.marker, iPoint)), R(2))

\* The conjugate factor was set to the local one, the two temperatures
\* differ, and an averaged call has returned.
C13_Witness ==
  /\ ChtReturned /\ asmCfg.energy /\ asmCfg.Kind_CHT_Coupling \in AveragedKinds
  /\ \E iPoint \in DomainVertexPoints(hist.marker) :
       /\ LocalFactor(hist.marker, iPoint) = ConjugateFactor(hist.marker, iPoint)
       /\ LocalFactor(hist.marker, iPoint) # RZero
       /\ NearWallT(hist.marker, iPoint) # ConjugateT(hist.marker, iPoint)
       /\ ImposedT(iPoint) = R(247)

\* C14: for the averaged-temperature kinds, a zero conjugate factor with a
\* nonzero local one gives the near-wall temperature, a zero local factor
\* with a nonzero conjugate one gives the conjugate temperature, and for
\* positive factors the wall temperature lies between the two temperatures.
C14_LimitsAndBetween ==
  (ChtReturned /\ asmCfg.energy /\ asmCfg.Kind_CHT_Coupling \in AveragedKinds) =>
    \A iPoint \in DomainVertexPoints(hist.marker) :
      LET here == LocalFactor(hist.marker, iPoint)
          conj == ConjugateFactor(hist.marker, iPoint)
          There == NearWallT(hist.marker, iPoint)
          Tconjugate == ConjugateT(hist.marker, iPoint)
      IN  /\ (conj = RZero /\ here # RZero) => ImposedT(iPoint) = There
          /\ (here = RZero /\ conj # RZero) => ImposedT(iPoint) = Tconjugate
          /\ (RLt(RZero, here) /\ RLt(RZero, conj)) =>
               /\ RLe(RMin(There, Tconjugate), ImposedT(iPoint))
               /\ RLe(ImposedT(iPoint), RMax(There, Tconjugate))

\* The local factor is zero, the conjugate one is not, and the averaged call
\* imposed the conjugate temperature, which differs from the near-wall one.
C14_Witness ==
  /\ ChtReturned /\ asmCfg.energy /\ asmCfg.Kind_CHT_Coupling \in AveragedKinds
  /\ \E iPoint \in DomainVertexPoints(hist.marker) :
       /\ LocalFactor(hist.marker, iPoint) = RZero
       /\ ConjugateFactor(hist.marker, iPoint) # RZero
       /\ ImposedT(iPoint) = ConjugateT(hist.marker, iPoint)
       /\ ImposedT(iPoint) # NearWallT(hist.marker, iPoint)

\* C23: SetConjugateHeatVariable(m, v, p, r, x) replaces the stored value old
\* at (m, v, p) by r*x + (1-r)*old and changes no other entry; r = 1 stores
\* x, r = 0 leaves the record unchanged, for 0 <= r <= 1 the new value lies
\* between old and x; GetConjugateHeatVariable returns the value of the
\* latest write, and no other procedure changes the records.
C23_RelaxedWrite ==
  [][/\ \A m \in Markers, pos_var \in ConjugatePositions,
          relaxation_factor \in RelaxationFactors, val_var \in ConjugateVals :
        \A v \in 1..Len(Vertex[m]) :
          SetConjugateHeatVariable(m, v, pos_var, relaxation_factor, val_var) =>
            LET old == HeatConjugateVar[m][v][pos_var]
                new == GetConjugateHeatVariable(m, v, pos_var)'
            IN  /\ new = RAdd(RMul(relaxation_factor, val_var),
                              RMul(RSub(R(1), relaxation_factor), old))
                /\ \A m2 \in Markers : \A v2 \in 1..Len(Vertex[m2]) :
                     \A p2 \in 0..(nHeatConjugateVar - 1) :
                       <<m2, v2, p2>> # <<m, v, pos_var>> =>
                         HeatConjugateVar'[m2][v2][p2] = HeatConjugateVar[m2][v2][p2]
                /\ relaxation_factor = R(1) => new = val_var
                /\ relaxation_factor = RZero => HeatConjugateVar' = HeatConjugateVar
                /\ (RLe(RZero, relaxation_factor) /\ RLe(relaxation_factor, R(1))) =>
                     /\ RLe(RMin(old, val_var), new)
                     /\ RLe(new, RMax(old, val_var))
     /\ ~IsCall("SetConjugateHeatVariable") => HeatConjugateVar' = HeatConjugateVar]_vars

\* Two half-relaxed writes of 400 onto the initial 288 of the first vertex:
\* 344 after the first, 372 after the second.
C23_Witness ==
  /\ hist.op = "SetConjugateHeatVariable" /\ hist.calls = 2
  /\ GetConjugateHeatVariable(0, 1, 0) = R(372)
  /\ GetConjugateHeatVariable(0, 2, 0) = Temperature_FreeStreamND

\* The wall temperature the coupling kind prescribes.
DerivedTwall(val_marker, iPoint) ==
  IF asmCfg.Kind_CHT_Coupling \in DirectKinds THEN ConjugateT(val_marker, iPoint)
  ELSE RDiv(RAdd(RMul(NearWallT(val_marker, iPoint), LocalFactor(val_marker, iPoint)),
                 RMul(ConjugateT(val_marker, iPoint), ConjugateFactor(val_marker, iPoint))),
            RAdd(LocalFactor(val_marker, iPoint), ConjugateFactor(val_marker, iPoint)))
WallEnergyRows(val_marker) ==
  {iPoint * nVar + nDim + 1 : iPoint \in DomainVertexPoints(val_marker)}

\* C15: with the energy equation active and a recognized coupling kind, a
\* BC_ConjugateHeat_Interface call leaves at every domain vertex the derived
\* wall temperature in the energy entry of the old solution (for the direct
\* kinds conjugate variable 0 over the reference temperature) and zero in the
\* energy entry of the residual; an implicit scheme gets identity rows for
\* the energy and the velocity rows and no other change of the Jacobian, an
\* explicit one no change at all.
C15_StrongTemperature ==
  [][(IsCall("BC_ConjugateHeat_Interface") /\ ~fatal' /\ asmCfg.energy
      /\ asmCfg.Kind_CHT_Coupling \in AveragedKinds \cup DirectKinds) =>
       /\ \A iPoint \in DomainVertexPoints(hist'.marker) :
            /\ Solution_Old'[iPoint][nDim + 1] = DerivedTwall(hist'.marker, iPoint)
            /\ LinSysRes'[iPoint][nDim + 1] = RZero
       /\ \A i \in WallEnergyRows(hist'.marker) \cup WallVelocityRows(hist'.marker) :
            JacRow(Jacobian', i) = IF asmCfg.implicit THEN IdentityRow(i) ELSE JacRow(Jacobian, i)
       /\ \A i \in AllRows \ (WallEnergyRows(hist'.marker) \cup WallVelocityRows(hist'.marker)) :
            JacRow(Jacobian', i) = JacRow(Jacobian, i)]_vars

\* An implicit call of a direct kind has returned after a viscous pass: the
\* energy row is an identity row, the pressure row still holds the pass's
\* entries, and the old solution holds conjugate variable 0 over the
\* reference temperature.
C15_Witness ==
  /\ ChtReturned /\ hist.calls = 2
  /\ asmCfg.implicit /\ asmCfg.energy /\ asmCfg.Kind_CHT_Coupling \in DirectKinds
  /\ JacRow(Jacobian, 0) # [c \in AllRows |-> RZero]
  /\ JacRow(Jacobian, nDim + 1) = IdentityRow(nDim + 1)
  /\ LinSysRes[0][0] # RZero
  /\ LinSysRes[0][nDim + 1] = RZero
  /\ Solution_Old[0][nDim + 1] = RDiv(Temperature_FreeStreamND, Temperature_Ref)

(***************************************************************************)
(* Properties of the constructor's halo exchanges (under SpecCtor)         *)
(***************************************************************************)
Exchange(e) == <<e.commType, e.val_periodic_index>>
PeriodicKinds == {"PERIODIC_VOLUME", "PERIODIC_NEIGHBORS"}
\* Calls alternate Initiate, Complete, and each Complete names the exchange
\* of the Initiate just before it.
PairedLog ==
  \A i \in 1..Len(commLog) :
    IF i % 2 = 1 THEN commLog[i].call = "Initiate"
    ELSE /\ commLog[i].call = "Complete"
         /\ Exchange(commLog[i]) = Exchange(commLog[i - 1])
\* The exchanges outstanding are those initiated and not completed in the log.
OutstandingMatchesLog ==
  outstanding = IF Len(commLog) % 2 = 1 THEN {Exchange(commLog[Len(commLog)])} ELSE {}
VolumeBeforeNeighbors ==
  \A j \in 1..Len(commLog) :
    (commLog[j].call = "Initiate" /\ commLog[j].commType = "PERIODIC_NEIGHBORS") =>
      \E i \in 1..(j - 1) :
        commLog[i] = CommEvent("Complete", "PERIODIC_VOLUME", commLog[j].val_periodic_index)
PeriodicBeforeSolution ==
  \A j \in 1..Len(commLog) :
    (commLog[j].call = "Initiate" /\ commLog[j].commType = "SOLUTION") =>
      /\ \A k \in 1..nPeriodicPairs, commType \in PeriodicKinds :
           \E i \in 1..(j - 1) : commLog[i] = CommEvent("Complete", commType, k)
      /\ \A i \in j..Len(commLog) : commLog[i].commType = "SOLUTION"

\* C18: in the constructor every Initiate is followed by the Complete of the
\* same exchange before any other Initiate, so at most one exchange is
\* outstanding and no Complete comes without its pending Initiate; for each
\* periodic pair the volume exchange completes before the neighbor exchange
\* starts, and every periodic exchange completes before the solution
\* exchange starts.
C18_ExchangesPaired ==
  /\ PairedLog
  /\ OutstandingMatchesLog
  /\ Cardinality(outstanding) <= 1
  /\ VolumeBeforeNeighbors
  /\ PeriodicBeforeSolution

\* The constructor has passed line 446 for two periodic pairs: ten calls.
C18_Witness ==
  /\ ctorPc = "done"
  /\ nPeriodicPairs = 2
  /\ Len(commLog) = 10
  /\ commLog[3] = CommEvent("Initiate", "PERIODIC_NEIGHBORS", 1)
  /\ commLog[9] = CommEvent("Initiate", "SOLUTION", 0)
  /\ outstanding = {}

(***************************************************************************)
(* Properties of Preprocessing (under SpecIter)                            *)
(***************************************************************************)
\* Process r has passed the local part of Preprocessing (lines 511-574).
PreLocalDone(r) == prePc[r] # "start"
LocalNonPhysical(r) == Cardinality({iPoint \in Points : ~preIn.physical[r][iPoint]})

\* C21: after Preprocessing with an implicit scheme and Output = false every
\* block of the Jacobian and the residual block of every point, halo points
\* included, is zero whatever it held before; with Output = true neither the
\* residual nor the Jacobian is modified.
C21_ZeroedUnlessOutput ==
  \A r \in Ranks :
    PreLocalDone(r) =>
      /\ (tsCfg.implicit /\ ~preIn.Output) =>
           /\ \A iPoint \in Points : RankLinSysRes[r][iPoint] = ZeroVec
           /\ \A iPoint, jPoint \in Points : RankJacobian[r][iPoint][jPoint] = ZeroBlock
      /\ preIn.Output =>
           /\ RankLinSysRes[r] = DirtyRes
           /\ RankJacobian[r] = DirtyJac

\* An implicit process has returned from Preprocessing with Output = false:
\* residual and Jacobian, nonzero before, are zero.
C21_Witness ==
  /\ tsCfg.implicit /\ ~preIn.Output
  /\ prePc[0] = "done"
  /\ DirtyRes[2] # ZeroVec /\ DirtyJac[2][2] # ZeroBlock
  /\ RankLinSysRes[0] = ZeroRes
  /\ RankJacobian[0] = ZeroJac

\* C22: SetPrimitive_Variables returns the number of points of the process
\* with a non-physical state and still processes every point; Preprocessing
\* sums the counts over the processes at full communication level and
\* records the total in the configuration on the finest mesh; the fatal
\* error is never raised.
C22_NonPhysicalCounted ==
  /\ ~fatal
  /\ \A r \in Ranks :
       LET total == LocalNonPhysical(0) + LocalNonPhysical(1)
           full == tsCfg.Comm_Level = "COMM_FULL"
       IN  /\ (PreLocalDone(r) /\ (~full \/ prePc[r] = "atErrorCounter")) =>
                ErrorCounter[r] = LocalNonPhysical(r)
           /\ (PreLocalDone(r) /\ ~preIn.Output) =>
                \A iPoint \in Points : RankLinSysRes[r][iPoint] = ZeroVec
           /\ (full /\ prePc[r] \in {"atStrainMag", "atOmega", "record", "done"}) =>
                ErrorCounter[r] = total
           /\ prePc[r] = "done" =>
                Nonphysical_Points[r] = IF full /\ callArgs.iMesh = 0 THEN total ELSE 0

\* Both processes have non-physical points, the first of them followed by
\* further points, and the total of three is recorded on the finest mesh.
C22_Witness ==
  /\ tsCfg.Comm_Level = "COMM_FULL" /\ callArgs.iMesh = 0
  /\ \A r \in Ranks : prePc[r] = "done"
  /\ LocalNonPhysical(0) = 2 /\ LocalNonPhysical(1) = 1
  /\ ~preIn.physical[0][0] /\ ~preIn.Output
  /\ Nonphysical_Points = [r \in Ranks |-> 3]
  /\ ~fatal

(***************************************************************************)
(* Properties of the collectives of one iteration (under SpecIter)         *)
(***************************************************************************)
IsPrefix(s, t) == Len(s) <= Len(t) /\ \A i \in 1..Len(s) : s[i] = t[i]
\* The collectives of Preprocessing and of SetTime_Step as a function of the
\* communication level, the time-marching mode, the unsteady CFL, the
\* iteration number and the mesh level.
ExpectedPre ==
  IF tsCfg.Comm_Level = "COMM_FULL" THEN <<"atErrorCounter", "atStrainMag", "atOmega">>
  ELSE <<>>
ExpectedTime ==
  (IF tsCfg.Comm_Level = "COMM_FULL" THEN <<"atMinMax">> ELSE <<>>)
  \o (IF tsCfg.Time_Marching = "TIME_STEPPING" THEN <<"atGlobal">> ELSE <<>>)
  \o (IF /\ tsCfg.Time_Marching \in {"DT_STEPPING_1ST", "DT_STEPPING_2ND"}
         /\ callArgs.Iteration = 0 /\ tsCfg.Unst_CFL # RZero /\ callArgs.iMesh = 0
      THEN <<"atUnst">> ELSE <<>>)

\* C19: the sequence of collectives a process issues in Preprocessing and
\* SetTime_Step is the one fixed by the run-wide configuration and the call
\* arguments: what it has issued so far is a prefix of that sequence, it has
\* issued all of Preprocessing's when it returns from Preprocessing and all
\* of them when it returns from SetTime_Step, so every process issues the
\* same sequence whatever its local data.
C19_SameCollectives ==
  \A r \in Ranks :
    /\ IsPrefix(collLog[r], ExpectedPre \o ExpectedTime)
    /\ prePc[r] = "done" => IsPrefix(ExpectedPre, collLog[r])
    /\ pc[r] = "done" => collLog[r] = ExpectedPre \o ExpectedTime
    /\ \A q \in Ranks : IsPrefix(collLog[r], collLog[q]) \/ IsPrefix(collLog[q], collLog[r])

\* Both processes have returned from SetTime_Step with five collectives
\* issued each, on different local data: different non-physical counts and
\* a zero-volume point on one of them.
C19_Witness ==
  /\ \A r \in Ranks : pc[r] = "done" /\ prePc[r] = "done" /\ Len(collLog[r]) = 5
  /\ collLog[0] = <<"atErrorCounter", "atStrainMag", "atOmega", "atMinMax", "atUnst">>
  /\ preIn.physical[0] # preIn.physical[1]
  /\ tsCfg.Volume[0][0] = 0 /\ tsCfg.Volume[1][0] # 0
  /\ ErrorCounter[0] = 3

(***************************************************************************)
(* Properties of SetTime_Step (under SpecTime)                             *)
(***************************************************************************)
AllDone == \A r \in Ranks : pc[r] = "done"
RankPoints == Ranks \X DomainPoints
NonzeroVolume == {rp \in RankPoints : tsCfg.Volume[rp[1]][rp[2]] # 0}
TwoThirds(dt_phys) == RMul(<<2, 3>>, dt_phys)

\* C6: after SetTime_Step has returned on every process, every domain point
\* whose control volume is exactly zero stores a local time step of zero, in
\* every time-marching mode (steady local, dual-time, time-stepping).
C6_ZeroVolumeZeroStep ==
  AllDone => \A rp \in RankPoints :
               tsCfg.Volume[rp[1]][rp[2]] = 0 => Delta_Time[rp[1]][rp[2]] = RZero

\* A point of zero volume that stores a nonzero step after a call in
\* time-stepping mode.
C6_Witness ==
  /\ AllDone
  /\ tsCfg.Time_Marching = "TIME_STEPPING"
  /\ \E rp \in RankPoints : /\ tsCfg.Volume[rp[1]][rp[2]] = 0
                            /\ stepLog[rp[1]][rp[2]] = <<-1, 1>>
                            /\ RLt(RZero, Delta_Time[rp[1]][rp[2]])

\* The interior edges incident to a point, and its boundary vertices on
\* markers that are neither internal nor periodic.
EdgesAt(iPoint) ==
  {iEdge \in 1..nEdge : Edges[iEdge].n0 = iPoint \/ Edges[iEdge].n1 = iPoint}
VerticesAt(iPoint) ==
  {mv \in UNION {{<<iMarker, iVertex>> : iVertex \in 1..Len(Vertex[iMarker])} :
                 iMarker \in Markers} :
     /\ Vertex[mv[1]][mv[2]].Node = iPoint
     /\ KindBC[mv[1]] \notin {"INTERNAL_BOUNDARY", "PERIODIC_BOUNDARY"}}

RECURSIVE RSum(_)
RSum(f) ==
  IF DOMAIN f = {} THEN RZero
  ELSE LET x == CHOOSE y \in DOMAIN f : TRUE
       IN  RAdd(f[x], RSum([y \in DOMAIN f \ {x} |-> f[y]]))

Lambda_Inv_Sum(iPoint) ==
  RAdd(RSum([iEdge \in EdgesAt(iPoint) |-> Edge_Lambda_Inv(iEdge, tsCfg.dynamic_grid)]),
       RSum([mv \in VerticesAt(iPoint) |->
               Vertex_Lambda_Inv(mv[1], mv[2], tsCfg.dynamic_grid)]))
Lambda_Visc_Sum(iPoint) ==
  RAdd(RSum([iEdge \in EdgesAt(iPoint) |-> Edge_Lambda_Visc(iEdge, tsCfg.energy)]),
       RSum([mv \in VerticesAt(iPoint) |-> Vertex_Lambda_Visc(mv[1], mv[2], tsCfg.energy)]))

\* min(min(CFL*Vol/lambda_inv, CFL*0.25*Vol^2/lambda_visc), MaxDeltaTime)
Steady_Step(cfl, Vol, lambda_inv, lambda_visc) ==
  RMin(RMin(RDiv(RMul(cfl, R(Vol)), lambda_inv),
            RDiv(RMul(RMul(cfl, <<1, 4>>), R(Vol * Vol)), lambda_visc)),
       tsCfg.Max_DeltaTime)

\* C24: after SetTime_Step has returned on every process, in every
\* time-marching mode, the local time step stored for every domain point is
\* at most the configured maximum time step.
C24_StepAtMostMaximum ==
  AllDone => \A rp \in RankPoints :
               RLe(Delta_Time[rp[1]][rp[2]], tsCfg.Max_DeltaTime)

\* After a call in time-stepping mode with a nonzero unsteady CFL a point of
\* nonzero volume stores the global step, taken from the unclipped steps,
\* which exceeds the configured maximum.
C24_Witness ==
  /\ AllDone
  /\ tsCfg.Time_Marching = "TIME_STEPPING" /\ tsCfg.Unst_CFL # RZero
  /\ \E rp \in NonzeroVolume :
       /\ RLt(tsCfg.Max_DeltaTime, Delta_Time[rp[1]][rp[2]])
       /\ Delta_Time[rp[1]][rp[2]] = Global_Delta_Time[rp[1]]

\* C7: in steady local mode every domain point of nonzero volume stores
\* min(min(CFL*Vol/lambda_inv, CFL*K_v*Vol^2/lambda_visc), MaxDeltaTime) with
\* K_v = 0.25, the spectral radii being the sums over the point's interior
\* edges and over its boundary vertices on markers that are neither internal
\* nor periodic.
C7_SteadyLocalStep ==
  tsCfg.Time_Marching = "STEADY" =>
    \A rp \in NonzeroVolume :
      pc[rp[1]] # "start" =>
        Delta_Time[rp[1]][rp[2]] =
          Steady_Step(LocalCFL[rp[1]][rp[2]], tsCfg.Volume[rp[1]][rp[2]],
                      Lambda_Inv_Sum(rp[2]), Lambda_Visc_Sum(rp[2]))

\* A steady call has returned; the point with vertices on the periodic and
\* the internal marker and the point with a wall vertex both store a step
\* below the configured maximum, one bounded by the viscous and one by the
\* inviscid spectral radius.
C7_Witness ==
  /\ tsCfg.Time_Marching = "STEADY"
  /\ AllDone
  /\ \A iPoint \in DomainPoints :
       /\ tsCfg.Volume[0][iPoint] # 0
       /\ RLt(Delta_Time[0][iPoint], tsCfg.Max_DeltaTime)
  /\ Delta_Time[0][1] = RDiv(RMul(RMul(LocalCFL[0][1], <<1, 4>>),
                                  R(tsCfg.Volume[0][1] * tsCfg.Volume[0][1])),
                             Max_Lambda_Visc[0][1])
  /\ Delta_Time[0][0] = RDiv(RMul(LocalCFL[0][0], R(tsCfg.Volume[0][0])),
                             Max_Lambda_Inv[0][0])

\* The step the per-point loop stores for given spectral radii.
Stored_Step(r, iPoint, lambda_inv, lambda_visc) ==
  Clip_Max(Stable_Step(LocalCFL[r][iPoint], tsCfg.Volume[r][iPoint], lambda_inv, lambda_visc))
\* Process r holds the steps of the per-point loop of the current call.
LoopStepStored(r) ==
  \/ pc[r] \in {"atMinMax", "atGlobal", "tsAssign", "unstLocal", "atUnst", "clip"}
  \/ tsCfg.Time_Marching = "STEADY" /\ pc[r] = "done"

\* C8: for a domain point of nonzero volume, with the mesh, the local CFL and
\* the configured maximum fixed, halving the accumulated inviscid or the
\* accumulated viscous spectral radius never gives a smaller stored step.
C8_HalvingNeverDecreases ==
  \A rp \in NonzeroVolume :
    LoopStepStored(rp[1]) =>
      LET lambda_inv == Max_Lambda_Inv[rp[1]][rp[2]]
          lambda_visc == Max_Lambda_Visc[rp[1]][rp[2]]
          before == Stored_Step(rp[1], rp[2], lambda_inv, lambda_visc)
      IN  /\ before = Delta_Time[rp[1]][rp[2]]
          /\ RLe(before, Stored_Step(rp[1], rp[2], RMul(Half, lambda_inv), lambda_visc))
          /\ RLe(before, Stored_Step(rp[1], rp[2], lambda_inv, RMul(Half, lambda_visc)))

\* Halving the inviscid radius strictly enlarges the step of one point and
\* halving the viscous radius that of another.
C8_Witness ==
  /\ \E rp \in NonzeroVolume :
       /\ LoopStepStored(rp[1])
       /\ RLt(Delta_Time[rp[1]][rp[2]],
              Stored_Step(rp[1], rp[2], RMul(Half, Max_Lambda_Inv[rp[1]][rp[2]]),
                          Max_Lambda_Visc[rp[1]][rp[2]]))
  /\ \E rp \in NonzeroVolume :
       /\ LoopStepStored(rp[1])
       /\ RLt(Delta_Time[rp[1]][rp[2]],
              Stored_Step(rp[1], rp[2], Max_Lambda_Inv[rp[1]][rp[2]],
                          RMul(Half, Max_Lambda_Visc[rp[1]][rp[2]])))

RECURSIVE MinStableStep(_)
MinStableStep(S) ==
  IF S = {} THEN Huge
  ELSE LET rp == CHOOSE x \in S : TRUE
       IN  RMin(stepLog[rp[1]][rp[2]], MinStableStep(S \ {rp}))

\* C9: in time-stepping mode with a nonzero unsteady CFL, after SetTime_Step
\* every domain point of every partition stores the same step, the minimum
\* over all nonzero-volume domain points of all partitions of
\* min(dt_inviscid, dt_viscous); the same value is the configuration's
\* non-dimensional physical time step, Min_Delta_Time and Max_Delta_Time.
C9_GlobalStepIsMinimum ==
  (tsCfg.Time_Marching = "TIME_STEPPING" /\ tsCfg.Unst_CFL # RZero /\ AllDone) =>
    /\ NonzeroVolume # {}
    /\ \A r \in Ranks :
         /\ \A iPoint \in DomainPoints : Delta_Time[r][iPoint] = MinStableStep(NonzeroVolume)
         /\ Delta_UnstTimeND[r] = MinStableStep(NonzeroVolume)
         /\ Min_Delta_Time[r] = MinStableStep(NonzeroVolume)
         /\ Max_Delta_Time[r] = MinStableStep(NonzeroVolume)

\* Every point has a nonzero volume and a stable step above 1E6; all
\* processes store 1E6.
C9_Witness ==
  /\ tsCfg.Time_Marching = "TIME_STEPPING" /\ tsCfg.Unst_CFL # RZero /\ AllDone
  /\ NonzeroVolume = RankPoints
  /\ RLt(R(1000000), MinStableStep(NonzeroVolume))
  /\ \A rp \in RankPoints : Delta_Time[rp[1]][rp[2]] = R(1000000)
  /\ \A r \in Ranks : Delta_UnstTimeND[r] = R(1000000)

\* The step the per-point loop of the last call stored for a point.
Loop_Step(r, iPoint) ==
  IF tsCfg.Volume[r][iPoint] = 0 THEN RZero
  ELSE RMin(stepLog[r][iPoint], tsCfg.Max_DeltaTime)

\* C10: in dual-time mode, after a call has returned, an explicit scheme
\* leaves every domain point with min(2/3*dt_phys, step of the per-point
\* loop), hence at most two thirds of the configuration's non-dimensional
\* physical time step; an implicit scheme leaves the step of the loop.
C10_DualTimeClip ==
  dual_time =>
    \A r \in Ranks : \A iPoint \in DomainPoints :
      pc[r] = "done" =>
        IF ~tsCfg.implicit
        THEN /\ Delta_Time[r][iPoint] =
                  RMin(TwoThirds(Delta_UnstTimeND[r]), Loop_Step(r, iPoint))
             /\ RLe(Delta_Time[r][iPoint], TwoThirds(Delta_UnstTimeND[r]))
        ELSE Delta_Time[r][iPoint] = Loop_Step(r, iPoint)

\* An explicit dual-time call has returned; the clip lowered the step of one
\* point and left the smaller step of another.
C10_Witness ==
  /\ dual_time /\ ~tsCfg.implicit /\ AllDone
  /\ \E rp \in NonzeroVolume :
       /\ RLt(TwoThirds(Delta_UnstTimeND[rp[1]]), Loop_Step(rp[1], rp[2]))
       /\ Delta_Time[rp[1]][rp[2]] = TwoThirds(Delta_UnstTimeND[rp[1]])
  /\ \E rp \in NonzeroVolume :
       /\ RLt(Loop_Step(rp[1], rp[2]), TwoThirds(Delta_UnstTimeND[rp[1]]))
       /\ Delta_Time[rp[1]][rp[2]] = Loop_Step(rp[1], rp[2])

(***************************************************************************)
(* Local work before the reductions (under SpecIter)                       *)
(***************************************************************************)
\* Process r issues a collective in the step, its first of SetTime_Step.
IssuesFirstTimeCollective(r) ==
  /\ Len(collLog'[r]) = Len(collLog[r]) + 1
  /\ collLog'[r][Len(collLog'[r])] \in CollectivePcs
  /\ \A i \in 1..Len(collLog[r]) : collLog[r][i] \notin CollectivePcs
\* Process r issues the reduction of the error counter in the step.
IssuesErrorCounter(r) ==
  /\ Len(collLog'[r]) = Len(collLog[r]) + 1
  /\ collLog'[r][Len(collLog'[r])] = "atErrorCounter"

\* C27: when a process issues its first reduction of a SetTime_Step call,
\* every domain point of its partition holds the sum of the edge and vertex
\* contributions as spectral radii and its local step; when it issues the
\* reduction of the error counter in Preprocessing, its residual and (for an
\* implicit scheme) its Jacobian are zeroed already, unless Output.
C27_AccumulateBeforeReduce ==
  [][\A r \in Ranks :
       /\ IssuesFirstTimeCollective(r) =>
            \A iPoint \in DomainPoints :
              /\ Max_Lambda_Inv'[r][iPoint] = Lambda_Inv_Sum(iPoint)
              /\ Max_Lambda_Visc'[r][iPoint] = Lambda_Visc_Sum(iPoint)
              /\ Delta_Time'[r][iPoint] =
                   IF tsCfg.Volume[r][iPoint] # 0
                   THEN Steady_Step(LocalCFL[r][iPoint], tsCfg.Volume[r][iPoint],
                                    Lambda_Inv_Sum(iPoint), Lambda_Visc_Sum(iPoint))
                   ELSE RZero
       /\ IssuesErrorCounter(r) =>
            /\ ~preIn.Output => RankLinSysRes'[r] = ZeroRes
            /\ (tsCfg.implicit /\ ~preIn.Output) => RankJacobian'[r] = ZeroJac]_vars

\* One process waits in the first reduction of SetTime_Step with its radii
\* and steps stored while the other has not started the procedure; both
\* issued the reduction of the error counter with residual and Jacobian
\* zeroed.
C27_Witness ==
  /\ pc[0] = "atMinMax" /\ pc[1] = "start"
  /\ collLog[0] = <<"atErrorCounter", "atStrainMag", "atOmega", "atMinMax">>
  /\ tsCfg.implicit /\ ~preIn.Output
  /\ RankLinSysRes[0] = ZeroRes /\ RankJacobian[0] = ZeroJac
  /\ Max_Lambda_Inv[0][0] # RZero /\ Max_Lambda_Visc[0][1] # RZero
  /\ Delta_Time[0][1] # RZero
  /\ Max_Lambda_Inv[1][0] = RZero

(***************************************************************************)
(* Consecutive evaluations of the time step (under SpecTime)               *)
(***************************************************************************)
\* Process r executes the local part of SetTime_Step in the step.
RunsLocalPart(r) == pc[r] = "start" /\ pc'[r] # "start"

\* C28: the spectral radii a call stores are the sums of the contributions
\* of this call alone; in steady local mode a second call with nothing
\* changed since the first stores the same radii and the same local steps,
\* and no step of a call changes a local CFL; in time-stepping mode a call
\* sets the local CFL of every domain point to the unsteady CFL.
C28_NoCarryOver ==
  [][/\ \A r \in Ranks :
          RunsLocalPart(r) =>
            /\ \A iPoint \in DomainPoints :
                 /\ Max_Lambda_Inv'[r][iPoint] = Lambda_Inv_Sum(iPoint)
                 /\ Max_Lambda_Visc'[r][iPoint] = Lambda_Visc_Sum(iPoint)
            /\ (tsCfg.Time_Marching = "STEADY" /\ nCalls = 2) =>
                 /\ Max_Lambda_Inv'[r] = Max_Lambda_Inv[r]
                 /\ Max_Lambda_Visc'[r] = Max_Lambda_Visc[r]
                 /\ Delta_Time'[r] = Delta_Time[r]
     /\ tsCfg.Time_Marching = "STEADY" => LocalCFL' = LocalCFL
     /\ \A r \in Ranks :
          (tsCfg.Time_Marching = "TIME_STEPPING" /\ pc[r] # "done" /\ pc'[r] = "done") =>
            \A iPoint \in DomainPoints : LocalCFL'[r][iPoint] = tsCfg.Unst_CFL]_vars

\* The second steady call has returned on both processes: nonzero radii and
\* steps are stored and the local CFL is the initial one.
C28_Witness ==
  /\ AllDone /\ nCalls = 2 /\ tsCfg.Time_Marching = "STEADY"
  /\ \A r \in Ranks : Max_Lambda_Inv[r][0] # RZero /\ Max_Lambda_Visc[r][1] # RZero
  /\ \E rp \in NonzeroVolume :
       /\ Delta_Time[rp[1]][rp[2]] # RZero
       /\ RLt(Delta_Time[rp[1]][rp[2]], tsCfg.Max_DeltaTime)
  /\ \A rp \in RankPoints : LocalCFL[rp[1]][rp[2]] = CFL_Init

(***************************************************************************)
(* The smallest and the largest step (under SpecTime)                      *)
(***************************************************************************)
\* min(CFL*Vol/lambda_inv, CFL*0.25*Vol^2/lambda_visc), before any clip.
Unclipped_Step(r, iPoint) ==
  RMin(RDiv(RMul(LocalCFL[r][iPoint], R(tsCfg.Volume[r][iPoint])), Lambda_Inv_Sum(iPoint)),
       RDiv(RMul(RMul(LocalCFL[r][iPoint], <<1, 4>>),
                 R(tsCfg.Volume[r][iPoint] * tsCfg.Volume[r][iPoint])),
            Lambda_Visc_Sum(iPoint)))
\* The points whose steps enter the bounds process r holds: its own points
\* of nonzero volume, and those of every process after the reductions.
Bounding(r) ==
  {rp \in NonzeroVolume : rp[1] = r \/ tsCfg.Comm_Level = "COMM_FULL"}
RECURSIVE MinUnclipped(_)
MinUnclipped(S) ==
  IF S = {} THEN <<1, 0>>
  ELSE LET rp == CHOOSE x \in S : TRUE
       IN  RMin(Unclipped_Step(rp[1], rp[2]), MinUnclipped(S \ {rp}))
RECURSIVE MaxUnclipped(_)
MaxUnclipped(S) ==
  IF S = {} THEN RZero
  ELSE LET rp == CHOOSE x \in S : TRUE
       IN  RMax(Unclipped_Step(rp[1], rp[2]), MaxUnclipped(S \ {rp}))

\* C29: after a steady call, on a process that owns a domain point of
\* nonzero volume, Min_Delta_Time <= Max_Delta_Time and the unclipped step of
\* each of its nonzero-volume domain points lies between them; the bounds
\* are the smallest and the largest unclipped step of the nonzero-volume
\* points alone, so Max_Delta_Time is taken before the clip.
C29_MinMaxBracket ==
  (tsCfg.Time_Marching = "STEADY" /\ AllDone) =>
    \A r \in Ranks :
      (\E rp \in NonzeroVolume : rp[1] = r) =>
        /\ RLe(Min_Delta_Time[r], Max_Delta_Time[r])
        /\ \A rp \in NonzeroVolume :
             rp[1] = r =>
               /\ RLe(Min_Delta_Time[r], Unclipped_Step(r, rp[2]))
               /\ RLe(Unclipped_Step(r, rp[2]), Max_Delta_Time[r])
        /\ Min_Delta_Time[r] = MinUnclipped(Bounding(r))
        /\ Max_Delta_Time[r] = MaxUnclipped(Bounding(r))

\* A steady call without the reductions has returned on a process with one
\* zero-volume and one nonzero-volume point: both bounds are the unclipped
\* step of that point, which exceeds the configured maximum the point
\* stores.
C29_Witness ==
  /\ tsCfg.Time_Marching = "STEADY" /\ AllDone /\ tsCfg.Comm_Level # "COMM_FULL"
  /\ \E r \in Ranks : \E iPoint \in DomainPoints : \E jPoint \in DomainPoints :
       /\ tsCfg.Volume[r][iPoint] = 0 /\ tsCfg.Volume[r][jPoint] # 0
       /\ Delta_Time[r][iPoint] = RZero
       /\ RLt(RZero, Min_Delta_Time[r])
       /\ Min_Delta_Time[r] = Max_Delta_Time[r]
       /\ RLt(tsCfg.Max_DeltaTime, Max_Delta_Time[r])
       /\ Delta_Time[r][jPoint] = tsCfg.Max_DeltaTime

(***************************************************************************)
(* The physical time step in dual-time mode (under SpecTime)               *)
(***************************************************************************)
\* The condition of the recomputation.
Recomputes ==
  /\ tsCfg.Time_Marching \in {"DT_STEPPING_1ST", "DT_STEPPING_2ND"}
  /\ callArgs.Iteration = 0
  /\ tsCfg.Unst_CFL # RZero
  /\ callArgs.iMesh = 0
\* The minimum over the domain points of the processes in S of
\* UnstCFL * (global step of the process) / (local CFL of the point).
RECURSIVE MinPhysicalStep(_)
MinPhysicalStep(S) ==
  IF S = {} THEN <<1, 0>>
  ELSE LET rp == CHOOSE x \in S : TRUE
       IN  RMin(RDiv(RMul(tsCfg.Unst_CFL, Global_Delta_Time[rp[1]]), LocalCFL[rp[1]][rp[2]]),
                MinPhysicalStep(S \ {rp}))

=============================================================================
